---- MODULE Spec2Model ----
(***************************************************************************)
(* A model of the chat-with-docs server: the text chunker of the knowledge *)
(* manager, the two documentation crawlers (the HTTP crawler and the       *)
(* browser-based scraper) and the message handler's load/chat pipeline.    *)
(* Further parts: the knowledge store and the retrieval node, the batches  *)
(* of the embedder service, the conversations and the streamed answers,    *)
(* the text and title extraction of a page, and the client's socket hook.  *)
(*                                                                         *)
(* Strings are sequences of one-character strings; URLs are sequences of   *)
(* atoms (scheme, host name, path segments), so that String.includes is a  *)
(* search for a contiguous sub-sequence and not a comparison of hosts.     *)
(***************************************************************************)
EXTENDS Integers, Sequences, FiniteSets, TLC

VARIABLES
    \* ---- KnowledgeManager.chunkText -----------------------------------
    text,           \* the text given to chunkText
    maxChars,       \* its maxChars argument
    chunks,         \* the returned chunk list (<<>> before the call)
    chunkPc,        \* "input" before the call, "done" after it
    \* ---- the HTTP crawler (DocumentationScraper over axios) ------------
    visitedUrls,    \* this.visitedUrls, one set per scraper instance
    crawlPc,        \* per scrapeDocumentation call: "idle", "await", "returned"
    pages,          \* per call: crawlLinks' pages (the url of each page)
    toCrawl,        \* per call: crawlLinks' toCrawl, the frontier
    urlsToProcess,  \* per call: the batch whose fetches are outstanding
    results,        \* per call: what each fetch of the batch returned
    fetched,        \* per call: how often fetchPageWithLinks was called per URL
    failedUrls,     \* per call: the URLs whose fetch threw (and was caught)
    progress,       \* per call: the current argument of each onProgress call
    enqueued,       \* per call: every URL toCrawl has held
    pageContent,    \* per call: content.length of the page made for a URL
    \* ---- the browser-based scraper (DocumentationScraper over puppeteer)
    bVisitedUrls,   \* this.visitedUrls
    bPc,            \* "idle", "initial", "batch", "delay", "returned", "threw"
    urlsToScrape,   \* scrapeDocumentation's urlsToScrape
    batchStart,     \* scrapePagesConcurrently's loop index i
    bResults,       \* scrapePagesConcurrently's results (the url of each page)
    batchOutcome,   \* what each promise of the batch has come to
    navigated,      \* how often page.goto was called per URL
    bProgress,      \* the current argument of each onProgress call
    bPageContent,   \* content.length of the page made for a URL
    \* ---- MessageHandler ------------------------------------------------
    graph,          \* this.graph: NoGraph (null) or [load, destroyed]
    knowledgeLoaded,\* per connection: connection.state.knowledgeLoaded
    messageCount,   \* per connection: connection.state.messages.length
    loadPc,         \* per connection: where its handleLoadDocs call stands
    loadId,         \* per connection: the number of its current or last load
    loadsStarted,   \* the number of load requests handled so far
    lastLoad,       \* per connection: how its last finished load ended
    events,         \* per connection: the events its current or last
                    \* handleLoadDocs call sent, in order
    okLoad,         \* per connection: the number of its last successful load
    chatPc,         \* per connection: "idle", "querying", "streaming"
    chatUse,        \* per connection: the graph and the message array its
                    \* running chat is answered from, and its own
    storeCount,     \* knowledgeManager.getEmbeddedRecords().length
    lastChat,       \* per connection: its last chat request: the outcome,
                    \* the pipeline's phase and the end of the last load
                    \* at that time, the load whose graph was queried
    \* ---- KnowledgeManager and the graphs created from it ---------------
    embeddedRecords,\* this.embeddedRecords: the array the field refers to
    heap,           \* the contents of every array the field has referred to
    populatePc,     \* per load: where its populate and create calls stand
    loadPages,      \* per load: the pages given to its populate call
    validTexts,     \* per load: validTexts of its populate call
    batchResult,    \* per load: batchResult.embeddings of its populate call
    thisGraph,      \* the load whose graph the handler holds (0: null)
    graphRecords,   \* per load: the array its graph captured (-1: none)
    lastRead,       \* the records the last retrieval read, and its graph
    \* ---- KnowledgeRetrievalNode.process -------------------------------
    nodeRecords,    \* embeddedRecords as the node's graph captured it
    queryEmbedding, \* queryData.queryEmbedding
    ranked,         \* sortedSimilarities: the store indices in sorted order
    relevantRecords,\* the relevantRecords returned: store indices in order
    retrievalPc,    \* "input", "returned", "threw"
    \* ---- EmbedderService.embedBatch -----------------------------------
    initialized,    \* this.initialized
    embedPc,        \* "idle", "init", "await", "returned", "threw"
    embedTexts,     \* the texts argument of the invocation
    batchIndex,     \* the loop variable i (0-based)
    allEmbeddings,  \* allEmbeddings
    outstanding,    \* service calls sent and not yet settled
    sentBatches,    \* the batches given to this.embedder.embedBatch, in order
    replies,        \* how each of them settled: "ok" or "fail"
    embedReturn,    \* <<>> or <<embeddings>>: what the invocation returned
    embedCalls,     \* invocations started
    \* ---- the conversations: handleChat and the prompt node -------------
    messages,       \* per connection: the array connection.state.messages
                    \* refers to
    arrays,         \* the contents of every message array
    arraysMade,     \* the number of message arrays made so far
    conversationHistory, \* the array the handler's graph captured (0: the
                    \* handler holds no graph)
    connLoaded,     \* per connection: connection.state.knowledgeLoaded
    loading,        \* per connection: a handleLoadDocs call is running
    answerPc,       \* per chat request: "idle", "rejected", "query",
                    \* "results", "stream", "done", "failed"
    chatConn,       \* per chat request: its connection
    chatHistory,    \* per chat request: the array captured by the graph
                    \* that answers it
    pushedTo,       \* per chat request: the array its user message is in
    renderedHistory,\* per chat request: <<>> or <<conversation_history>>
                    \* as the prompt node rendered it
    fullResponse,   \* per chat request: fullResponse
    isFirstChunk,   \* per chat request: isFirstChunk
    produced,       \* per chat request: the fragments its streams yielded
    resultKinds,    \* per chat request: the kind of each result so far
    sentMessages,   \* per connection: the events handleChat sent, in order
    \* ---- extractDocumentationText and the page title ------------------
    elements,       \* the elements find(...) matched: parent, kind, own text
    eachIndex,      \* the element the callback of each(...) is called for
    textElements,   \* textElements
    processedElements, \* processedElements
    extractPc,      \* "each", "returned"
    h1Text,         \* the text of the first h1 element
    titleText,      \* the text of the title element
    httpTitle,      \* <<>> or <<title>>: the title the HTTP crawler made
    browserTitle,   \* <<>> or <<title>>: the title the browser crawler made
    \* ---- the client hook useWebSocket --------------------------------
    mounted,        \* the effect has run and its cleanup has not
    effectRuns,     \* how often the effect has run
    connectTimeout, \* the timer of the effect is pending
    wsRef,          \* wsRef.current: a socket, or 0 for null
    readyState,     \* per socket: its readyState
    closeEvent,     \* per socket: "none", "queued", "handled"
    reconnectTimeoutRef, \* reconnectTimeoutRef.current: a timer, 0 at first
    timers          \* the reconnect timers set so far: delay and pending

chunkVars == <<text, maxChars, chunks, chunkPc>>
httpVars == <<visitedUrls, crawlPc, pages, toCrawl, urlsToProcess, results,
              fetched, failedUrls, progress, enqueued, pageContent>>
browserVars == <<bVisitedUrls, bPc, urlsToScrape, batchStart, bResults,
                 batchOutcome, navigated, bProgress, bPageContent>>
handlerVars == <<graph, knowledgeLoaded, messageCount, loadPc, loadId,
                 loadsStarted, lastLoad, lastChat, events, okLoad, chatPc,
                 chatUse, storeCount>>
storeVars == <<embeddedRecords, heap, populatePc, loadPages, validTexts,
               batchResult, thisGraph, graphRecords, lastRead>>
retrievalVars == <<nodeRecords, queryEmbedding, ranked, relevantRecords,
                   retrievalPc>>
embedVars == <<initialized, embedPc, embedTexts, batchIndex, allEmbeddings,
               outstanding, sentBatches, replies, embedReturn, embedCalls>>
convVars == <<messages, arrays, arraysMade, conversationHistory, connLoaded,
              loading, answerPc, chatConn, chatHistory, pushedTo,
              renderedHistory, fullResponse, isFirstChunk, produced,
              resultKinds, sentMessages>>
extractVars == <<elements, eachIndex, textElements, processedElements,
                 extractPc>>
titleVars == <<h1Text, titleText, httpTitle, browserTitle>>
clientVars == <<mounted, effectRuns, connectTimeout, wsRef, readyState,
                closeEvent, reconnectTimeoutRef, timers>>
restVars == <<convVars, extractVars, titleVars, clientVars>>

----------------------------------------------------------------------------
(* Bounds of the chunker's inputs. *)
MaxTextLen == 8
MaxMaxChars == 4

(* The characters texts are made of: a letter, the space, a sentence
   terminator. *)
Chars == {"a", " ", "."}

\* /[.!?]/ of the sentence pattern
IsTerminator(c) == c \in {".", "!", "?"}

\* white space as String.prototype.trim sees it
IsSpace(c) == c \in {" ", "\t", "\n"}

RECURSIVE SeqsUpTo(_, _)
SeqsUpTo(S, n) ==
    IF n = 0 THEN {<<>>}
    ELSE LET shorter == SeqsUpTo(S, n - 1)
         IN  shorter \cup {Append(s, c) : s \in {t \in shorter : Len(t) = n - 1}, c \in S}

Texts == SeqsUpTo(Chars, MaxTextLen)

\* the length of the longest prefix of s made of characters satisfying / not
\* satisfying the terminator test
RECURSIVE RunLen(_, _)
RunLen(s, term) ==
    IF s = <<>> \/ IsTerminator(Head(s)) # term THEN 0
    ELSE 1 + RunLen(Tail(s), term)

Min(a, b) == IF a < b THEN a ELSE b

Drop(s, n) == SubSeq(s, n + 1, Len(s))
Take(s, n) == SubSeq(s, 1, n)

\* text.match(/[^.!?]+[.!?]+/g): the successive leftmost matches, a null
\* result being <<>>
RECURSIVE MatchSentences(_)
MatchSentences(s) ==
    IF s = <<>> THEN <<>>
    ELSE IF IsTerminator(Head(s)) THEN MatchSentences(Tail(s))
    ELSE LET q == RunLen(s, FALSE)
             r == q + RunLen(Drop(s, q), TRUE)
         IN  IF q = Len(s) THEN <<>>
             ELSE <<Take(s, r)>> \o MatchSentences(Drop(s, r))

\* text.match(...) || [text]
Sentences(s) ==
    IF MatchSentences(s) = <<>> THEN <<s>> ELSE MatchSentences(s)

\* String.prototype.trim
RECURSIVE TrimLeft(_)
TrimLeft(s) ==
    IF s # <<>> /\ IsSpace(Head(s)) THEN TrimLeft(Tail(s)) ELSE s

RECURSIVE TrimRight(_)
TrimRight(s) ==
    IF s # <<>> /\ IsSpace(s[Len(s)]) THEN TrimRight(Take(s, Len(s) - 1)) ELSE s

Trim(s) == TrimRight(TrimLeft(s))

\* sentence.split(' ')
RECURSIVE SplitSpaces(_, _)
SplitSpaces(s, cur) ==
    IF s = <<>> THEN <<cur>>
    ELSE IF Head(s) = " " THEN <<cur>> \o SplitSpaces(Tail(s), <<>>)
    ELSE SplitSpaces(Tail(s), Append(cur, Head(s)))

Split(s) == SplitSpaces(s, <<>>)

WordFitsNoSeparator(tempChunk, word, m) ==
    Len(tempChunk) + Len(word) <= m

\* (tempChunk + ' ' + word).length <= maxChars
WordFits(tempChunk, word, m) ==
    Len(tempChunk \o <<" ">> \o word) <= m

\* the loop over the words of a sentence that is too long; st is
\* [chunks, tempChunk]
RECURSIVE PackWords(_, _, _)
PackWords(words, st, m) ==
    IF words = <<>> THEN st
    ELSE LET word == Head(words)
             next ==
                IF WordFits(st.tempChunk, word, m)
                THEN [st EXCEPT !.tempChunk =
                        IF st.tempChunk # <<>>
                        THEN st.tempChunk \o <<" ">> \o word ELSE word]
                ELSE [chunks |-> IF st.tempChunk # <<>>
                                 THEN Append(st.chunks, Trim(st.tempChunk))
                                 ELSE st.chunks,
                      tempChunk |-> word]
         IN  PackWords(Tail(words), next, m)

\* (currentChunk + sentence).length <= maxChars
SentenceFits(currentChunk, sentence, m) ==
    Len(currentChunk \o sentence) <= m

\* the loop over the sentences; st is [chunks, currentChunk]
RECURSIVE PackSentences(_, _, _)
PackSentences(sentences, st, m) ==
    IF sentences = <<>> THEN st
    ELSE LET sentence == Head(sentences)
             flushed == IF st.currentChunk # <<>>
                        THEN Append(st.chunks, Trim(st.currentChunk))
                        ELSE st.chunks
             packed == PackWords(Split(sentence),
                                 [chunks |-> flushed, tempChunk |-> <<>>], m)
             next ==
                IF SentenceFits(st.currentChunk, sentence, m)
                THEN [st EXCEPT !.currentChunk = st.currentChunk \o sentence]
                ELSE IF Len(sentence) > m
                THEN [chunks |-> packed.chunks,
                      currentChunk |-> IF packed.tempChunk # <<>>
                                       THEN packed.tempChunk
                                       ELSE st.currentChunk]
                ELSE [chunks |-> flushed, currentChunk |-> sentence]
         IN  PackSentences(Tail(sentences), next, m)

\* KnowledgeManager.chunkText
chunkText(s, m) ==
    LET st == PackSentences(Sentences(s), [chunks |-> <<>>, currentChunk |-> <<>>], m)
    IN  IF st.currentChunk # <<>>
        THEN Append(st.chunks, Trim(st.currentChunk))
        ELSE st.chunks

ChunkInit ==
    /\ text \in Texts
    /\ maxChars \in 1..MaxMaxChars
    /\ chunks = <<>>
    /\ chunkPc = "input"

\* one call chunkText(text, maxChars)
Chunk ==
    /\ chunkPc = "input"
    /\ chunks' = chunkText(text, maxChars)
    /\ chunkPc' = "done"
    /\ UNCHANGED <<text, maxChars>>

----------------------------------------------------------------------------
(* URLs.  A URL is [host, path], both sequences of atoms; its text is the    *)
(* scheme followed by the host's and the path's atoms.                       *)

\* the number of ordinary documentation pages of the crawled site
NumDocs == 3
\* crawlLinks' maxPages; scrapeDocumentation passes SCRAPER_MAX_PAGES (100,
\* constants.ts), scaled down here
MaxPages == 3
\* CONCURRENT_LIMIT (5 in the scraper, line 14), scaled down so that a
\* frontier of the model's size is cut into several batches
ConcurrentLimit == 2

PageNames == <<"intro", "guide", "api", "faq", "sdk">>

SeedHost == <<"docs.site">>
OtherHost == <<"evil.site">>

DocUrl(name) == [host |-> SeedHost, path |-> <<"/docs/", name>>]

\* the documentation pages of the seed's site
DocUrls == {DocUrl(PageNames[i]) : i \in 1..NumDocs}

\* another site's page whose path holds the seed's host name
ForeignUrl == [host |-> OtherHost, path |-> <<"/docs/", "docs.site">>]
\* another site's page that does not mention the seed's host
PlainForeignUrl == [host |-> OtherHost, path |-> <<"/docs/", "intro">>]
\* the seed site's login redirect to a documentation page
LoginUrl == [host |-> SeedHost,
             path |-> <<"/login", "?", "redirect=", "/docs/", "intro">>]
\* a page of the seed's site outside the documentation
BlogUrl == [host |-> SeedHost, path |-> <<"/blog/", "intro">>]

Urls == DocUrls \cup {ForeignUrl, PlainForeignUrl, LoginUrl, BlogUrl}

\* the seed of every crawl
SeedUrl == DocUrl(PageNames[1])

\* the text of a URL
Str(u) == <<"https://">> \o u.host \o u.path

\* new URL(url).hostname
Hostname(u) == u.host

\* String.prototype.includes
Includes(s, t) ==
    \E i \in 0..(Len(s) - Len(t)) : SubSeq(s, i + 1, i + Len(t)) = t

Range(f) == {f[i] : i \in DOMAIN f}

\* absoluteUrl.includes(domain)
DomainFilter(absoluteUrl, domain) == Includes(Str(absoluteUrl), domain)

\* the condition under which fetchPageWithLinks keeps a link of the page
KeepsLink(absoluteUrl, domain, visited) ==
    /\ DomainFilter(absoluteUrl, domain)
    /\ absoluteUrl \notin visited
    /\ Includes(Str(absoluteUrl), <<"/docs/">>)
    /\ ~Includes(Str(absoluteUrl), <<"/login">>)
    /\ ~Includes(Str(absoluteUrl), <<"redirect=">>)

(* What a call fetchPageWithLinks(url) returns.  kind "fail": the request or
   the parsing threw and the catch returned {page: null, links: []}; "short":
   the content is under 50 characters, {page: null, links}; "ok":
   {page, links}.  The anchors of a page are modelled by the absolute URLs
   they resolve to; links holds those that pass the filter, in a set whose
   document order is drawn when the links are enqueued. *)
Pending == [kind |-> "pending", links |-> {}, content |-> 0]

\* the length below which a page's content is too short to keep
MinContentLength == 50

\* the content lengths a page can have: too short, and just long enough
ContentLengths == {MinContentLength - 1, MinContentLength}

KeepsAnyContent(content) == FALSE

\* if (content.length < 50)
TooShort(content) == content < MinContentLength

\* every site: the anchors of a page resolve to any URLs
AnySite == Urls

\* sites whose pages link only to documentation pages of the seed's host
\* (the page itself included) and to its login redirect
LinkedSite == DocUrls \cup {LoginUrl}

LinksOfPagesOnly(content, links) == IF TooShort(content) THEN {} ELSE links

\* return { page: null, links } and return { page: {...}, links }: the links
\* found are returned whatever the length of the content
ReturnedLinks(content, links) == links

\* the results a fetch of url can have on a page whose anchors resolve to
\* some of the URLs in anchors: the links kept are any subset of those
\* among anchors that pass the filter
FetchResults(url, visited, anchors) ==
    {[kind |-> "fail", links |-> {}, content |-> 0]} \cup
    {[kind |-> IF TooShort(n) THEN "short" ELSE "ok",
      links |-> ReturnedLinks(n, ls), content |-> n] :
        n \in ContentLengths,
        ls \in SUBSET {u \in anchors : KeepsLink(u, Hostname(url), visited)}}

CrawlIds == {1, 2}

RECURSIVE Perms(_)
Perms(S) ==
    IF S = {} THEN {<<>>}
    ELSE UNION {{<<x>> \o p : p \in Perms(S \ {x})} : x \in S}

\* !this.visitedUrls.has(link) && !toCrawl.includes(link)
EnqueuesAnyLink(link, visited, queue) == TRUE

Enqueues(link, visited, queue) ==
    link \notin visited /\ link \notin Range(queue)

AcceptsAnyResult(r) == r.kind # "pending"

\* if (page): the result carries a page
HasPage(r) == r.kind = "ok"

UnshiftPage(pgs, url) == <<url>> \o pgs

\* pages.push(page)
PushPage(pgs, url) == Append(pgs, url)

\* the frontiers the links of one result can leave: toCrawl followed by the
\* links that are enqueued, in their document order
EnqueueLinks(queue, links, visited) ==
    {queue \o p : p \in Perms({l \in links : Enqueues(l, visited, queue)})}

\* the loop over the results of a batch, from result i on: the [pages,
\* toCrawl, progress] it can end with, progress being the onProgress calls
RECURSIVE ProcessResults(_, _, _, _, _)
ProcessResults(batch, res, st, visited, i) ==
    IF i > Len(batch) THEN {st}
    ELSE LET pgs == IF HasPage(res[i]) THEN PushPage(st.pages, batch[i])
                    ELSE st.pages
             calls == IF HasPage(res[i]) THEN Append(st.progress, Len(pgs))
                      ELSE st.progress
         IN  UNION {ProcessResults(batch, res,
                                   [pages |-> pgs, toCrawl |-> q,
                                    progress |-> calls], visited, i + 1) :
                        q \in EnqueueLinks(st.toCrawl, res[i].links, visited)}

TakeAll(queue, count) == Take(queue, Len(queue))

\* batch.slice(0, remainingSlots) of toCrawl.splice(0, CONCURRENT_LIMIT)
TakeBatch(queue, count) ==
    LET batch == Take(queue, Min(Len(queue), ConcurrentLimit))
        remainingSlots == MaxPages - count
    IN  Take(batch, Min(Len(batch), remainingSlots))

\* toCrawl after toCrawl.splice(0, CONCURRENT_LIMIT)
AfterSplice(queue) == Drop(queue, Min(Len(queue), ConcurrentLimit))

MarksNothing(visited, urls) == visited

\* urlsToProcess.forEach((url) => this.visitedUrls.add(url))
MarkVisited(visited, urls) == visited \cup Range(urls)

\* the while condition of crawlLinks
Continues(queue, count) == Len(queue) > 0 /\ count < MaxPages

(* From the loop head of crawlLinks to its next suspension: either a batch is
   taken, marked visited and its fetches are started, or the loop ends and
   crawlLinks returns. *)
LoopHead(c, visited, pgs, queue) ==
    IF Continues(queue, Len(pgs))
    THEN LET urls == TakeBatch(queue, Len(pgs))
         IN  /\ visitedUrls' = MarkVisited(visited, urls)
             /\ crawlPc' = [crawlPc EXCEPT ![c] = "await"]
             /\ pages' = [pages EXCEPT ![c] = pgs]
             /\ toCrawl' = [toCrawl EXCEPT ![c] = AfterSplice(queue)]
             /\ urlsToProcess' = [urlsToProcess EXCEPT ![c] = urls]
             /\ results' = [results EXCEPT ![c] = [i \in 1..Len(urls) |-> Pending]]
             /\ fetched' = [fetched EXCEPT ![c] =
                    [u \in Urls |-> @[u] + IF u \in Range(urls) THEN 1 ELSE 0]]
    ELSE /\ visitedUrls' = visited
         /\ crawlPc' = [crawlPc EXCEPT ![c] = "returned"]
         /\ pages' = [pages EXCEPT ![c] = pgs]
         /\ toCrawl' = [toCrawl EXCEPT ![c] = queue]
         /\ urlsToProcess' = [urlsToProcess EXCEPT ![c] = <<>>]
         /\ results' = [results EXCEPT ![c] = <<>>]
         /\ UNCHANGED fetched

HttpInit ==
    /\ visitedUrls = {}
    /\ crawlPc = [c \in CrawlIds |-> "idle"]
    /\ pages = [c \in CrawlIds |-> <<>>]
    /\ toCrawl = [c \in CrawlIds |-> <<>>]
    /\ urlsToProcess = [c \in CrawlIds |-> <<>>]
    /\ results = [c \in CrawlIds |-> <<>>]
    /\ fetched = [c \in CrawlIds |-> [u \in Urls |-> 0]]
    /\ failedUrls = [c \in CrawlIds |-> {}]
    /\ progress = [c \in CrawlIds |-> <<>>]
    /\ enqueued = [c \in CrawlIds |-> {}]
    /\ pageContent = [c \in CrawlIds |-> [u \in Urls |-> 0]]

\* scrapeDocumentation(url): the visited set is cleared and crawlLinks runs
\* to its first suspension
ScrapeDocumentation(c) ==
    /\ crawlPc[c] = "idle"
    /\ LoopHead(c, {}, <<>>, <<SeedUrl>>)
    /\ enqueued' = [enqueued EXCEPT ![c] = {SeedUrl}]
    /\ UNCHANGED <<failedUrls, progress, pageContent>>

\* one outstanding fetchPageWithLinks call of the batch returns, the anchors
\* of its page resolving to URLs in anchors
FetchSettles(c, anchors) ==
    /\ crawlPc[c] = "await"
    /\ \E i \in 1..Len(urlsToProcess[c]) :
        /\ results[c][i] = Pending
        /\ \E r \in FetchResults(urlsToProcess[c][i], visitedUrls, anchors) :
            /\ results' = [results EXCEPT ![c][i] = r]
            /\ failedUrls' = [failedUrls EXCEPT ![c] =
                    IF r.kind = "fail" THEN @ \cup {urlsToProcess[c][i]} ELSE @]
            /\ pageContent' = [pageContent EXCEPT ![c][urlsToProcess[c][i]] =
                    IF HasPage(r) THEN r.content ELSE @]
    /\ UNCHANGED <<visitedUrls, crawlPc, pages, toCrawl, urlsToProcess, fetched,
                   progress, enqueued>>

\* Promise.allSettled has resolved: the results are processed and the loop
\* goes on to its next suspension or returns
ProcessBatch(c) ==
    /\ crawlPc[c] = "await"
    /\ \A i \in 1..Len(urlsToProcess[c]) : results[c][i] # Pending
    /\ \E st \in ProcessResults(urlsToProcess[c], results[c],
                                [pages |-> pages[c], toCrawl |-> toCrawl[c],
                                 progress |-> progress[c]],
                                visitedUrls, 1) :
            /\ LoopHead(c, visitedUrls, st.pages, st.toCrawl)
            /\ progress' = [progress EXCEPT ![c] = st.progress]
            /\ enqueued' = [enqueued EXCEPT ![c] = @ \cup Range(st.toCrawl)]
    /\ UNCHANGED <<failedUrls, pageContent>>

----------------------------------------------------------------------------
(* The browser-based scraper: scrapeDocumentation navigates to the seed to   *)
(* collect its links, then scrapePagesConcurrently scrapes the collected     *)
(* URLs in batches.                                                          *)

\* maxConcurrency (3 at the call in scrapeDocumentation), scaled down
MaxConcurrency == 2

\* a documentation page addressed with a fragment
AnchorUrl == [host |-> SeedHost, path |-> <<"/docs/", "guide", "#", "top">>]

BrowserUrls == Urls \cup {AnchorUrl}

\* the condition under which extractLinksFromPage keeps a link
BrowserKeepsLink(absoluteUrl, domain) ==
    /\ Includes(Str(absoluteUrl), domain)
    /\ Includes(Str(absoluteUrl), <<"/docs/">>)
    /\ ~Includes(Str(absoluteUrl), <<"#">>)
    /\ ~Includes(Str(absoluteUrl), <<"?">>)

LimitsNothing(urls) == urls

\* Array.from(allUrls).slice(0, SCRAPER_MAX_PAGES)
LimitUrls(urls) == Take(urls, Min(Len(urls), MaxPages))

\* if (this.visitedUrls.has(url)) return null
SkipsVisited(visited, url) == url \in visited

\* the promises of a batch up to their first suspension: a URL already
\* visited resolves to null at once, the others are marked visited and
\* their pages are opened
RECURSIVE StartBatch(_, _, _)
StartBatch(batch, visited, i) ==
    IF i > Len(batch) THEN [visited |-> visited, outcome |-> <<>>]
    ELSE LET skip == SkipsVisited(visited, batch[i])
             rest == StartBatch(batch, visited \cup {batch[i]}, i + 1)
         IN  [visited |-> rest.visited,
              outcome |-> <<IF skip THEN "null" ELSE "pending">> \o rest.outcome]

\* urls.slice(i, i + maxConcurrency)
BatchAt(urls, i) == SubSeq(urls, i + 1, Min(Len(urls), i + MaxConcurrency))

\* the head of the for loop of scrapePagesConcurrently with index i: the next
\* batch is started, or the loop is over and results is returned
BatchLoop(urls, i, visited) ==
    IF i < Len(urls)
    THEN LET started == StartBatch(BatchAt(urls, i), visited, 1)
         IN  /\ bPc' = "batch"
             /\ bVisitedUrls' = started.visited
             /\ batchOutcome' = started.outcome
             /\ batchStart' = i
    ELSE /\ bPc' = "returned"
         /\ bVisitedUrls' = visited
         /\ batchOutcome' = <<>>
         /\ batchStart' = i

BrowserInit ==
    /\ bVisitedUrls = {}
    /\ bPc = "idle"
    /\ urlsToScrape = <<>>
    /\ batchStart = 0
    /\ bResults = <<>>
    /\ batchOutcome = <<>>
    /\ navigated = [u \in BrowserUrls |-> 0]
    /\ bProgress = <<>>
    /\ bPageContent = [u \in BrowserUrls |-> 0]

\* scrapeDocumentation(url) up to the navigation of the initial page
BrowserScrapeDocumentation ==
    /\ bPc = "idle"
    /\ bPc' = "initial"
    /\ bVisitedUrls' = {}
    /\ navigated' = [navigated EXCEPT ![SeedUrl] = @ + 1]
    /\ UNCHANGED <<urlsToScrape, batchStart, bResults, batchOutcome, bProgress,
                   bPageContent>>

\* the initial page has loaded and its links are extracted: allUrls is the
\* seed followed by the links kept, and the first batch is started
InitialLinks ==
    /\ bPc = "initial"
    /\ \E ls \in SUBSET {u \in BrowserUrls : BrowserKeepsLink(u, Hostname(SeedUrl))} :
        \E order \in Perms(ls \ {SeedUrl}) :
            LET urls == LimitUrls(<<SeedUrl>> \o order)
            IN  /\ urlsToScrape' = urls
                /\ bResults' = <<>>
                /\ BatchLoop(urls, 0, bVisitedUrls)
    /\ UNCHANGED <<navigated, bProgress, bPageContent>>

\* the navigation of the initial page or the extraction of its links throws:
\* scrapeDocumentation rethrows
InitialThrows ==
    /\ bPc = "initial"
    /\ bPc' = "threw"
    /\ UNCHANGED <<bVisitedUrls, urlsToScrape, batchStart, bResults,
                   batchOutcome, navigated, bProgress, bPageContent>>

\* onProgress?.(results.length + 1, SCRAPER_MAX_PAGES, title)
ProgressCount(res) == Len(res) + 1

\* one promise of the batch settles: opening the page fails (the promise is
\* rejected before any navigation), or the page is navigated to and yields a
\* page, or null for short content and for a caught error
PageSettles ==
    /\ bPc = "batch"
    /\ \E k \in 1..Len(batchOutcome) :
        /\ batchOutcome[k] = "pending"
        /\ \/ /\ batchOutcome' = [batchOutcome EXCEPT ![k] = "rejected"]
              /\ UNCHANGED <<navigated, bProgress, bPageContent>>
           \/ /\ \/ /\ batchOutcome' = [batchOutcome EXCEPT ![k] = "null"]
                    /\ UNCHANGED <<bProgress, bPageContent>>
                 \/ \E n \in ContentLengths :
                        IF TooShort(n)
                        THEN /\ batchOutcome' = [batchOutcome EXCEPT ![k] = "null"]
                             /\ UNCHANGED <<bProgress, bPageContent>>
                        ELSE /\ batchOutcome' = [batchOutcome EXCEPT ![k] = "page"]
                             /\ bProgress' =
                                    Append(bProgress, ProgressCount(bResults))
                             /\ bPageContent' = [bPageContent EXCEPT
                                    ![urlsToScrape[batchStart + k]] = n]
              /\ navigated' = [navigated EXCEPT
                    ![urlsToScrape[batchStart + k]] = @ + 1]
    /\ UNCHANGED <<bVisitedUrls, bPc, urlsToScrape, batchStart, bResults>>

\* the pages of a settled batch, in batch order
RECURSIVE BatchPages(_, _, _)
BatchPages(batch, outcome, k) ==
    IF k > Len(batch) THEN <<>>
    ELSE (IF outcome[k] = "page" THEN <<batch[k]>> ELSE <<>>)
            \o BatchPages(batch, outcome, k + 1)

\* Promise.allSettled has resolved: the pages are added to results; the loop
\* breaks at SCRAPER_MAX_PAGES results and pauses otherwise
BatchSettled ==
    /\ bPc = "batch"
    /\ \A k \in 1..Len(batchOutcome) : batchOutcome[k] # "pending"
    /\ bResults' = bResults \o
            BatchPages(BatchAt(urlsToScrape, batchStart), batchOutcome, 1)
    /\ bPc' = IF Len(bResults') >= MaxPages THEN "returned" ELSE "delay"
    /\ UNCHANGED <<bVisitedUrls, urlsToScrape, batchStart, batchOutcome, navigated,
                   bProgress, bPageContent>>

\* the pause between batches is over: i += maxConcurrency
DelayOver ==
    /\ bPc = "delay"
    /\ BatchLoop(urlsToScrape, batchStart + MaxConcurrency, bVisitedUrls)
    /\ UNCHANGED <<urlsToScrape, bResults, navigated, bProgress, bPageContent>>

----------------------------------------------------------------------------
(* The message handler.  Every websocket message is handled by an async      *)
(* callback of its own, so a handler suspended at an await is interleaved    *)
(* with the handlers of later messages of the same and of other connections. *)
(* The graph, the knowledge manager and the scraper are the handler's, shared*)
(* by all connections.                                                       *)

\* the connections open at the same time
NumConnections == 2
\* the load requests handled in one run
MaxLoads == 3
\* the messages a conversation is let grow to
MaxMessages == 2

Connections == 1..NumConnections

NoGraph == [load |-> 0, destroyed |-> FALSE]

\* the scraping_progress events of one load, and the records one populate
\* call pushes
MaxProgress == 1
MaxPushed == 1

\* an event sent to the client by handleLoadDocs
Event(type, pageCount, recordCount) ==
    [type |-> type, pageCount |-> pageCount, recordCount |-> recordCount]

NoChat == [graph |-> 0, history |-> 0, ownLoad |-> 0, ownHistory |-> 0]

HandlerInit ==
    /\ graph = NoGraph
    /\ knowledgeLoaded = [c \in Connections |-> FALSE]
    /\ messageCount = [c \in Connections |-> 0]
    /\ loadPc = [c \in Connections |-> "idle"]
    /\ loadId = [c \in Connections |-> 0]
    /\ loadsStarted = 0
    /\ lastLoad = [c \in Connections |-> "none"]
    /\ lastChat = [c \in Connections |->
            [result |-> "none", phase |-> "Idle", after |-> "none", load |-> 0]]
    /\ events = [c \in Connections |-> <<>>]
    /\ okLoad = [c \in Connections |-> 0]
    /\ chatPc = [c \in Connections |-> "idle"]
    /\ chatUse = [c \in Connections |-> NoChat]
    /\ storeCount = 0

(* The state of a connection's pipeline: Loading while a handleLoadDocs call
   of the connection is running, Ready when its last load request succeeded,
   Idle otherwise. *)
Phase(c) ==
    IF loadPc[c] # "idle" THEN "Loading"
    ELSE IF lastLoad[c] = "ok" THEN "Ready"
    ELSE "Idle"

\* this.sendMessage(connection.ws, ...) in the load of connection c
Send(c, event) == events' = [events EXCEPT ![c] = Append(@, event)]

\* the pages scrapeDocumentation returned to the load of connection c: one
\* per progress call
PageCount(c) ==
    Len(SelectSeq(events[c], LAMBDA e : e.type = "scraping_progress"))

LoadingOnly == <<Event("loading_docs", 0, 0)>>

\* the events handleLoadDocs sends before it calls the scraper
StartEvents == <<Event("clear_messages", 0, 0), Event("loading_docs", 0, 0)>>

FailsSilently(c) ==
    /\ loadPc' = [loadPc EXCEPT ![c] = "idle"]
    /\ lastLoad' = [lastLoad EXCEPT ![c] = "failed"]
    /\ UNCHANGED events

\* the catch of handleLoadDocs, and its return on an empty page list: an
\* error event is sent and nothing else changes
LoadFails(c) ==
    /\ loadPc' = [loadPc EXCEPT ![c] = "idle"]
    /\ lastLoad' = [lastLoad EXCEPT ![c] = "failed"]
    /\ Send(c, Event("error", 0, 0))

\* handleLoadDocs up to the call of scrapeDocumentation; a connection's
\* load requests are taken one after the other, those of different
\* connections overlap
HandleLoadDocs(c) ==
    /\ loadPc[c] = "idle"
    /\ loadsStarted < MaxLoads
    /\ loadsStarted' = loadsStarted + 1
    /\ loadId' = [loadId EXCEPT ![c] = loadsStarted + 1]
    /\ messageCount' = [messageCount EXCEPT ![c] = 0]
    /\ events' = [events EXCEPT ![c] = StartEvents]
    /\ loadPc' = [loadPc EXCEPT ![c] = "scraping"]
    /\ UNCHANGED <<graph, knowledgeLoaded, lastLoad, lastChat, okLoad, chatPc,
                   chatUse, storeCount>>

\* the onProgress callback given to scrapeDocumentation is called
ScrapingProgress(c) ==
    /\ loadPc[c] = "scraping"
    /\ PageCount(c) < MaxProgress
    /\ Send(c, Event("scraping_progress", 0, 0))
    /\ UNCHANGED <<graph, knowledgeLoaded, messageCount, loadPc, loadId,
                   loadsStarted, lastLoad, lastChat, okLoad, chatPc, chatUse,
                   storeCount>>

\* scrapeDocumentation has settled: it threw, or returned no page, or
\* returned pages and loadDocumentationWithEmbeddings is called, which
\* makes this.embeddedRecords a new empty array
ScrapeSettles(c) ==
    /\ loadPc[c] = "scraping"
    /\ \/ LoadFails(c) /\ UNCHANGED storeCount
       \/ /\ PageCount(c) > 0
          /\ loadPc' = [loadPc EXCEPT ![c] = "populating"]
          /\ storeCount' = 0
          /\ UNCHANGED <<lastLoad, events>>
    /\ UNCHANGED <<graph, knowledgeLoaded, messageCount, loadId, loadsStarted,
                   lastChat, okLoad, chatPc, chatUse>>

\* if (this.graph) { await this.graph.destroy(); ... }: destroy() stops and
\* destroys the executor before its first suspension
DestroyOrCreate(c) ==
    IF graph # NoGraph
    THEN /\ graph' = [graph EXCEPT !.destroyed = TRUE]
         /\ loadPc' = [loadPc EXCEPT ![c] = "destroying"]
    ELSE /\ graph' = graph
         /\ loadPc' = [loadPc EXCEPT ![c] = "creating"]

\* loadDocumentationWithEmbeddings has settled: it threw (no valid chunk, an
\* embedding error, too many failed embeddings), or populated the store; its
\* records are pushed into the array this.embeddedRecords refers to
PopulateSettles(c) ==
    /\ loadPc[c] = "populating"
    /\ \/ /\ LoadFails(c)
          /\ \E pushed \in 0..1 : storeCount' = storeCount + pushed
          /\ UNCHANGED graph
       \/ /\ DestroyOrCreate(c)
          /\ \E pushed \in 1..MaxPushed : storeCount' = storeCount + pushed
          /\ UNCHANGED <<lastLoad, events>>
    /\ UNCHANGED <<knowledgeLoaded, messageCount, loadId, loadsStarted,
                   lastChat, okLoad, chatPc, chatUse>>

\* graph.destroy() has settled: this.graph = null and InworldGraph.create is
\* called, or destroy threw
DestroySettles(c) ==
    /\ loadPc[c] = "destroying"
    /\ \/ LoadFails(c) /\ UNCHANGED graph
       \/ /\ graph' = NoGraph
          /\ loadPc' = [loadPc EXCEPT ![c] = "creating"]
          /\ UNCHANGED <<lastLoad, events>>
    /\ UNCHANGED <<knowledgeLoaded, messageCount, loadId, loadsStarted,
                   lastChat, okLoad, chatPc, chatUse, storeCount>>

\* InworldGraph.create has settled: it threw, or this.graph is the new graph,
\* knowledgeLoaded is set and docs_loaded is sent
CreateSettles(c) ==
    /\ loadPc[c] = "creating"
    /\ \/ LoadFails(c) /\ UNCHANGED <<graph, knowledgeLoaded, okLoad>>
       \/ /\ graph' = [load |-> loadId[c], destroyed |-> FALSE]
          /\ knowledgeLoaded' = [knowledgeLoaded EXCEPT ![c] = TRUE]
          /\ loadPc' = [loadPc EXCEPT ![c] = "idle"]
          /\ lastLoad' = [lastLoad EXCEPT ![c] = "ok"]
          /\ okLoad' = [okLoad EXCEPT ![c] = loadId[c]]
          /\ Send(c, Event("docs_loaded", PageCount(c), storeCount))
    /\ UNCHANGED <<messageCount, loadId, loadsStarted, lastChat, chatPc,
                   chatUse, storeCount>>

RejectsWithoutGraph(c) == graph = NoGraph

\* if (!this.graph || !connection.state.knowledgeLoaded): the not-ready error
RejectsChat(c) == graph = NoGraph \/ ~knowledgeLoaded[c]

\* handleChat up to the call of graph.processQuery: the request is rejected
\* as not ready, or the user message is recorded and the query is started on
\* this.graph, which holds the records and the message array given to its
\* create call; a connection's chat requests are taken one after the other
HandleChat(c) ==
    /\ chatPc[c] = "idle"
    /\ messageCount[c] < MaxMessages
    /\ IF RejectsChat(c)
       THEN /\ lastChat' = [lastChat EXCEPT ![c] =
                    [result |-> "rejected", phase |-> Phase(c),
                     after |-> lastLoad[c], load |-> 0]]
            /\ UNCHANGED <<messageCount, chatPc, chatUse>>
       ELSE /\ lastChat' = [lastChat EXCEPT ![c] =
                    [result |-> "started", phase |-> Phase(c),
                     after |-> lastLoad[c], load |-> graph.load]]
            /\ messageCount' = [messageCount EXCEPT ![c] = @ + 1]
            /\ chatPc' = [chatPc EXCEPT ![c] = "querying"]
            /\ chatUse' = [chatUse EXCEPT ![c] =
                    [graph |-> graph.load, history |-> graph.load,
                     ownLoad |-> okLoad[c], ownHistory |-> loadId[c]]]
    /\ UNCHANGED <<graph, knowledgeLoaded, loadPc, loadId, loadsStarted,
                   lastLoad, events, okLoad, storeCount>>

\* await this.graph.processQuery(...) has settled: the output stream is
\* iterated, or the call threw and the catch sends an error
QuerySettles(c) ==
    /\ chatPc[c] = "querying"
    /\ \/ /\ chatPc' = [chatPc EXCEPT ![c] = "streaming"]
          /\ UNCHANGED chatUse
       \/ /\ chatPc' = [chatPc EXCEPT ![c] = "idle"]
          /\ chatUse' = [chatUse EXCEPT ![c] = NoChat]
    /\ UNCHANGED <<graph, knowledgeLoaded, messageCount, loadPc, loadId,
                   loadsStarted, lastLoad, lastChat, events, okLoad,
                   storeCount>>

\* the for await over the output stream has ended: with a response, which is
\* pushed to connection.state.messages, or without one, or by an error
StreamEnds(c) ==
    /\ chatPc[c] = "streaming"
    /\ chatPc' = [chatPc EXCEPT ![c] = "idle"]
    /\ chatUse' = [chatUse EXCEPT ![c] = NoChat]
    /\ \E pushed \in 0..1 :
        messageCount' = [messageCount EXCEPT ![c] = @ + pushed]
    /\ UNCHANGED <<graph, knowledgeLoaded, loadPc, loadId, loadsStarted,
                   lastLoad, lastChat, events, okLoad, storeCount>>

----------------------------------------------------------------------------
(* The knowledge manager.  this.embeddedRecords refers to an array; every    *)
(* populate call makes the field refer to a new empty array and later pushes *)
(* its records into the array the field refers to at that time.  A graph     *)
(* keeps the array the field referred to when the graph was created.         *)

\* the load requests whose populate and create calls are followed
NumLoads == 2
\* the pages of one populate call
MaxLoadPages == 2
\* KNOWLEDGE_CONFIG.MAX_CHARS_PER_CHUNK (600, constants.ts), scaled down
MaxCharsPerChunk == 4
\* the least length of a valid chunk (10 in the filter of populate), scaled
\* down
MinValidLen == 2

Loads == 1..NumLoads

\* page contents: two sentences that make two valid chunks; three sentences
\* whose middle one makes a chunk that is too short; a text too short to
\* make a valid chunk
PageContents ==
    {<<"a", "b", ".", " ", "b", "a", ".">>,
     <<"b", "b", ".", " ", ".", " ", "a", "a", ".">>,
     <<"a">>}

\* the page lists a populate call is given: scrapeDocumentation returned at
\* least one page
PageLists == SeqsUpTo(PageContents, MaxLoadPages) \ {<<>>}

\* the pages of two loads of different sites
SitePages(l) ==
    IF l = 1 THEN {<< <<"a", "b", ".", " ", "b", "a", ".">> >>}
    ELSE {<< <<"b", "b", ".", " ", ".", " ", "a", "a", ".">> >>}

\* the vectors the embedding service answers with
ServiceVectors == {<<1, 0>>, <<0, 1>>}

\* for (const page of pages) texts.push(...this.chunkText(page.content))
RECURSIVE CollectTexts(_)
CollectTexts(ps) ==
    IF ps = <<>> THEN <<>>
    ELSE chunkText(Head(ps), MaxCharsPerChunk) \o CollectTexts(Tail(ps))

AcceptsAnyText(t) == TRUE

\* text.trim().length >= 10
IsValidText(t) == Len(Trim(t)) >= MinValidLen

\* texts.filter(...)
FilterValid(texts) == SelectSeq(texts, IsValidText)

HasAnyEmbedding(embeddings, i) == i <= Len(embeddings)

\* embedding && embedding.length > 0, embedding being
\* batchResult.embeddings[i] (undefined beyond the end of the array)
HasEmbedding(embeddings, i) == i <= Len(embeddings) /\ Len(embeddings[i]) > 0

\* the loop that builds the records, from index i on: the records pushed
\* and the failures counted
RECURSIVE BuildRecords(_, _, _)
BuildRecords(valid, embeddings, i) ==
    IF i > Len(valid) THEN [records |-> <<>>, failureCount |-> 0]
    ELSE LET rest == BuildRecords(valid, embeddings, i + 1)
         IN  IF HasEmbedding(embeddings, i)
             THEN [rest EXCEPT !.records =
                    <<[text |-> valid[i], embedding |-> embeddings[i]]>> \o @]
             ELSE [rest EXCEPT !.failureCount = @ + 1]

FailureRateAtLeastHalf(failureCount, n) == 2 * failureCount >= n

ToleratesAnyFailureRate(failureCount, n) == FALSE

\* failureCount / validTexts.length > 0.5
FailureRateTooHigh(failureCount, n) == 2 * failureCount > n

\* the states in which a populate call has thrown
PopulateThrew ==
    {"threw: initialize", "threw: no valid text", "threw: embedBatch",
     "threw: failure rate"}

StoreInit ==
    /\ embeddedRecords = 0
    /\ heap = [a \in 0..NumLoads |-> <<>>]
    /\ populatePc = [l \in Loads |-> "idle"]
    /\ loadPages = [l \in Loads |-> <<>>]
    /\ validTexts = [l \in Loads |-> <<>>]
    /\ batchResult = [l \in Loads |-> <<>>]
    /\ thisGraph = 0
    /\ graphRecords = [l \in Loads |-> -1]
    /\ lastRead = [graph |-> 0, records |-> <<>>]

\* loadDocumentationWithEmbeddings(pages) up to await initialize(): the
\* field is made to refer to a new empty array
loadDocumentationWithEmbeddings(l, lists) ==
    /\ populatePc[l] = "idle"
    /\ \E ps \in lists : loadPages' = [loadPages EXCEPT ![l] = ps]
    /\ embeddedRecords' = l
    /\ heap' = [heap EXCEPT ![l] = <<>>]
    /\ populatePc' = [populatePc EXCEPT ![l] = "initialize"]
    /\ UNCHANGED <<validTexts, batchResult, thisGraph, graphRecords, lastRead>>

\* initialize() has settled: it threw, or the chunks are collected and
\* filtered, and populate throws for want of a valid chunk or calls
\* embedBatch
EmbedderInitialized(l) ==
    /\ populatePc[l] = "initialize"
    /\ \/ /\ populatePc' = [populatePc EXCEPT ![l] = "threw: initialize"]
          /\ UNCHANGED validTexts
       \/ LET valid == FilterValid(CollectTexts(loadPages[l]))
          IN  /\ validTexts' = [validTexts EXCEPT ![l] = valid]
              /\ populatePc' = [populatePc EXCEPT ![l] =
                    IF Len(valid) = 0 THEN "threw: no valid text"
                    ELSE "embedBatch"]
    /\ UNCHANGED <<embeddedRecords, heap, loadPages, batchResult, thisGraph,
                   graphRecords, lastRead>>

\* embedBatch has settled: it threw, or returned embeddings (an array that
\* may be short of entries and hold empty ones); the records are pushed into
\* the array the field refers to now and the failure rate is tested
EmbedBatchSettles(l, vectors) ==
    /\ populatePc[l] = "embedBatch"
    /\ \/ /\ populatePc' = [populatePc EXCEPT ![l] = "threw: embedBatch"]
          /\ UNCHANGED <<heap, batchResult>>
       \/ \E embeddings \in SeqsUpTo(vectors \cup {<<>>}, Len(validTexts[l])) :
            LET built == BuildRecords(validTexts[l], embeddings, 1)
            IN  /\ batchResult' = [batchResult EXCEPT ![l] = embeddings]
                /\ heap' = [heap EXCEPT ![embeddedRecords] = @ \o built.records]
                /\ populatePc' = [populatePc EXCEPT ![l] =
                        IF FailureRateTooHigh(built.failureCount,
                                              Len(validTexts[l]))
                        THEN "threw: failure rate" ELSE "returned"]
    /\ UNCHANGED <<embeddedRecords, loadPages, validTexts, thisGraph,
                   graphRecords, lastRead>>

\* knowledgeManager.hasEmbeddings()
hasEmbeddings == Len(heap[embeddedRecords]) > 0

\* after populate has returned the handler destroys the graph it holds and
\* calls InworldGraph.create, which throws without embeddings and otherwise
\* awaits the initialization of the graph's embedder
InworldGraphCreate(l) ==
    /\ populatePc[l] = "returned"
    /\ thisGraph' = 0
    /\ populatePc' = [populatePc EXCEPT ![l] =
            IF hasEmbeddings THEN "create" ELSE "threw: create"]
    /\ UNCHANGED <<embeddedRecords, heap, loadPages, validTexts, batchResult,
                   graphRecords, lastRead>>

\* the graph's embedder is initialized: the graph captures
\* knowledgeManager.getEmbeddedRecords() and becomes the handler's graph
CaptureRecords(l) ==
    /\ populatePc[l] = "create"
    /\ \/ /\ populatePc' = [populatePc EXCEPT ![l] = "threw: create"]
          /\ UNCHANGED <<thisGraph, graphRecords>>
       \/ /\ graphRecords' = [graphRecords EXCEPT ![l] = embeddedRecords]
          /\ thisGraph' = l
          /\ populatePc' = [populatePc EXCEPT ![l] = "created"]
    /\ UNCHANGED <<embeddedRecords, heap, loadPages, validTexts, batchResult,
                   lastRead>>

\* a query reaches the retrieval node of the handler's graph, which reads
\* the array the graph captured
ReadRecords ==
    /\ thisGraph # 0
    /\ lastRead' = [graph |-> thisGraph,
                    records |-> heap[graphRecords[thisGraph]]]
    /\ UNCHANGED <<embeddedRecords, heap, populatePc, loadPages, validTexts,
                   batchResult, thisGraph, graphRecords>>

----------------------------------------------------------------------------
(* The retrieval node and cosineSimilarity.  The vectors of the model have   *)
(* components that are natural numbers.  A similarity dot/(|a| * |b|) is     *)
(* kept exactly, as [num, sq] for num/sqrt(sq); sq = 0 is the NaN that 0/0   *)
(* gives for a zero vector.                                                   *)

\* the records of a store
MaxRecords == 4
\* KNOWLEDGE_CONFIG.RETRIEVAL_TOP_K (5, constants.ts), scaled down
RetrievalTopK == 2

\* the embeddings of the records: three directions, the zero vector and a
\* vector of another dimension
RecordVectors == {<<1, 0>>, <<1, 1>>, <<1, 2>>, <<0, 0>>, <<1>>}

\* the embeddings of the queries
QueryVectors == {<<1, 0>>, <<1, 1>>, <<0, 0>>}

\* the stores of a graph: record i has the text i
Stores ==
    {[i \in 1..Len(es) |-> [text |-> i, embedding |-> es[i]]] :
        es \in SeqsUpTo(RecordVectors, MaxRecords)}

\* the sum of a[i] * b[i]
RECURSIVE Dot(_, _)
Dot(a, b) == IF a = <<>> THEN 0 ELSE Head(a) * Head(b) + Dot(Tail(a), Tail(b))

\* EmbedderService.cosineSimilarity: the dimension-mismatch error, or the
\* quotient
cosineSimilarity(a, b) ==
    IF Len(a) # Len(b) THEN [error |-> TRUE, num |-> 0, sq |-> 1]
    ELSE [error |-> FALSE, num |-> Dot(a, b), sq |-> Dot(a, a) * Dot(b, b)]

\* the similarity 0 of the catch
ZeroSimilarity == [num |-> 0, sq |-> 1]

\* embeddedRecords.map(...): the item of the record at index, its
\* similarity 0 when cosineSimilarity threw
SimilarityItem(query, records, index) ==
    LET c == cosineSimilarity(query, records[index].embedding)
    IN  [record |-> records[index].text,
         similarity |-> IF c.error THEN ZeroSimilarity
                        ELSE [num |-> c.num, sq |-> c.sq],
         index |-> index]

Similarities(query, records) ==
    [index \in 1..Len(records) |-> SimilarityItem(query, records, index)]

IsNaN(x) == x.sq = 0

\* x < y for two similarities that are numbers
Less(x, y) == x.num * x.num * y.sq < y.num * y.num * x.sq

\* the sign of the comparator's b.similarity - a.similarity as sort reads
\* it: a NaN result counts as 0
CompareFn(a, b) ==
    IF IsNaN(a.similarity) \/ IsNaN(b.similarity) THEN 0
    ELSE IF Less(a.similarity, b.similarity) THEN 1
    ELSE IF Less(b.similarity, a.similarity) THEN -1
    ELSE 0

\* the comparator orders the items consistently: the items it calls equal
\* to a common item are equal to each other
ConsistentComparator(items) ==
    \A i, j, k \in 1..Len(items) :
        CompareFn(items[i], items[j]) = 0 /\ CompareFn(items[j], items[k]) = 0
            => CompareFn(items[i], items[k]) = 0

\* item put behind the items of sorted that the comparator does not place
\* after it
RECURSIVE InsertSorted(_, _)
InsertSorted(sorted, item) ==
    IF sorted = <<>> THEN <<item>>
    ELSE IF CompareFn(Head(sorted), item) <= 0
         THEN <<Head(sorted)>> \o InsertSorted(Tail(sorted), item)
         ELSE <<item>> \o sorted

RECURSIVE StableSort(_, _)
StableSort(items, sorted) ==
    IF items = <<>> THEN sorted
    ELSE StableSort(Tail(items), InsertSorted(sorted, Head(items)))

\* similarities.sort(comparator): the stable sort when the comparator is
\* consistent; with an inconsistent comparator the order is left to the
\* implementation
SortOutcomes(items) ==
    IF ConsistentComparator(items) THEN {StableSort(items, <<>>)}
    ELSE Perms(Range(items))

AnySimilarity(x) == TRUE

\* item.similarity >= KNOWLEDGE_CONFIG.RETRIEVAL_THRESHOLD, the threshold
\* being 0.5: num/sqrt(sq) >= 1/2; a NaN is not
AtLeastThreshold(x) == ~IsNaN(x) /\ 4 * x.num * x.num >= x.sq

ItemAboveThreshold(item) == AtLeastThreshold(item.similarity)

TopAll(items) == items

\* aboveThreshold.slice(0, KNOWLEDGE_CONFIG.RETRIEVAL_TOP_K)
TopK(items) == Take(items, Min(Len(items), RetrievalTopK))

\* sortedSimilarities.filter(...).slice(...).map((item) => item.record)
TopRecords(sorted) ==
    LET top == TopK(SelectSeq(sorted, ItemAboveThreshold))
    IN  [i \in 1..Len(top) |-> top[i].record]

RetrievalInit ==
    /\ nodeRecords \in Stores
    /\ queryEmbedding \in QueryVectors
    /\ ranked = <<>>
    /\ relevantRecords = <<>>
    /\ retrievalPc = "input"

\* KnowledgeRetrievalNode.process(queryData)
Process ==
    /\ retrievalPc = "input"
    /\ IF Len(nodeRecords) = 0
       THEN /\ retrievalPc' = "threw"
            /\ UNCHANGED <<ranked, relevantRecords>>
       ELSE \E sorted \in SortOutcomes(Similarities(queryEmbedding, nodeRecords)) :
            /\ ranked' = sorted
            /\ relevantRecords' = TopRecords(sorted)
            /\ retrievalPc' = "returned"
    /\ UNCHANGED <<nodeRecords, queryEmbedding>>

----------------------------------------------------------------------------
\* EmbedderService.embedBatch

\* EMBEDDER_CONFIG.BATCH_SIZE (100), scaled
BatchSize == 2
MaxEmbedTexts == 6
MaxEmbedCalls == 2

\* the texts of an invocation: text k is k, so that order can be observed
EmbedInputs == {[k \in 1..n |-> k] : n \in 0..MaxEmbedTexts}

\* what the service can answer for a batch: an array of embeddings, some of
\* them possibly empty
ServiceReplies(batch) == SeqsUpTo({<<1, 0>>, <<>>}, Len(batch))

WholeRest(input, i) == SubSeq(input, i + 1, Len(input))

\* texts.slice(i, i + EMBEDDER_CONFIG.BATCH_SIZE)
BatchSlice(input, i) == SubSeq(input, i + 1, Min(i + BatchSize, Len(input)))

\* the for loop's test with index i, the embeddings collected so far, the
\* service calls still pending and the batches sent so far: the next batch is given to the service, or
\* the invocation returns
EmbedLoop(input, i, collected, pending, sent) ==
    IF i < Len(input)
    THEN /\ batchIndex' = i
         /\ allEmbeddings' = collected
         /\ sentBatches' = Append(sent, BatchSlice(input, i))
         /\ outstanding' = pending + 1
         /\ embedPc' = "await"
         /\ embedReturn' = <<>>
    ELSE /\ batchIndex' = i
         /\ allEmbeddings' = collected
         /\ sentBatches' = sent
         /\ outstanding' = pending
         /\ embedPc' = "returned"
         /\ embedReturn' = <<collected>>

EmbedInit ==
    /\ initialized = FALSE
    /\ embedPc = "idle"
    /\ embedTexts = <<>>
    /\ batchIndex = 0
    /\ allEmbeddings = <<>>
    /\ outstanding = 0
    /\ sentBatches = <<>>
    /\ replies = <<>>
    /\ embedReturn = <<>>
    /\ embedCalls = 0

\* embedBatch(texts) up to its first await
embedBatch(input) ==
    /\ embedPc \in {"idle", "returned", "threw"}
    /\ embedCalls < MaxEmbedCalls
    /\ embedCalls' = embedCalls + 1
    /\ embedTexts' = input
    /\ replies' = <<>>
    /\ IF initialized
       THEN EmbedLoop(input, 0, <<>>, 0, <<>>)
       ELSE /\ embedPc' = "init"
            /\ batchIndex' = 0
            /\ allEmbeddings' = <<>>
            /\ outstanding' = 0
            /\ sentBatches' = <<>>
            /\ embedReturn' = <<>>
    /\ UNCHANGED initialized

\* await this.initialize() settles: the factory call succeeded, or it threw
\* and initialize rethrew
InitializeSettles(ok) ==
    /\ embedPc = "init"
    /\ IF ok
       THEN /\ initialized' = TRUE
            /\ EmbedLoop(embedTexts, 0, <<>>, 0, sentBatches)
       ELSE /\ embedPc' = "threw"
            /\ UNCHANGED <<initialized, batchIndex, allEmbeddings, outstanding,
                           sentBatches, embedReturn>>
    /\ UNCHANGED <<embedTexts, replies, embedCalls>>

\* await this.embedder.embedBatch(batch) rejects: the catch block throws
ServiceFails ==
    /\ embedPc = "await"
    /\ outstanding' = outstanding - 1
    /\ replies' = Append(replies, "fail")
    /\ embedPc' = "threw"
    /\ UNCHANGED <<initialized, embedTexts, batchIndex, allEmbeddings, sentBatches,
                   embedReturn, embedCalls>>

\* await this.embedder.embedBatch(batch) resolves: the embeddings are pushed
\* and the loop goes on
ServiceAnswers ==
    /\ embedPc = "await"
    /\ replies' = Append(replies, "ok")
    /\ \E batchEmbeddings \in ServiceReplies(BatchSlice(embedTexts, batchIndex)) :
        EmbedLoop(embedTexts, batchIndex + BatchSize,
                  allEmbeddings \o batchEmbeddings, outstanding - 1,
                  sentBatches)
    /\ UNCHANGED <<initialized, embedTexts, embedCalls>>

----------------------------------------------------------------------------
(* The conversations.  connection.state.messages refers to an array; a load  *)
(* request makes it refer to a new one, and InworldGraph.create captures the *)
(* array the field refers to when it is called.  The handler holds one       *)
(* graph.  Every chat request is handled by an async call of its own, with   *)
(* its own assistantId, fullResponse and isFirstChunk.                       *)

\* the chat requests handled in one run
MaxQueries == 2
\* the message arrays made in one run (one per connection at first)
MaxArrays == 4
\* the results the output stream of one query yields
MaxResults == 2
\* the fragments the streams of one query yield
MaxFragments == 2
\* MAX_CONVERSATION_HISTORY (10, constants.ts), scaled down
MaxConversationHistory == 1

Queries == 1..MaxQueries
ArrayIds == 1..MaxArrays

\* the texts a stream yields: the empty string among them
Fragments == {<<>>, <<"a">>, <<"b">>}

\* the fallback text of the string handler
NoInformation == <<"n">>

Message(role, content, id) == [role |-> role, content |-> content, id |-> id]

\* an event sent to the client by handleChat
ChatEvent(type, content, id) == [type |-> type, content |-> content, id |-> id]

ErrorEvent == ChatEvent("error", <<>>, 0)

ConvInit ==
    /\ messages = [c \in Connections |-> c]
    /\ arrays = [a \in ArrayIds |-> <<>>]
    /\ arraysMade = NumConnections
    /\ conversationHistory = 0
    /\ connLoaded = [c \in Connections |-> FALSE]
    /\ loading = [c \in Connections |-> FALSE]
    /\ answerPc = [q \in Queries |-> "idle"]
    /\ chatConn = [q \in Queries |-> 0]
    /\ chatHistory = [q \in Queries |-> 0]
    /\ pushedTo = [q \in Queries |-> 0]
    /\ renderedHistory = [q \in Queries |-> <<>>]
    /\ fullResponse = [q \in Queries |-> <<>>]
    /\ isFirstChunk = [q \in Queries |-> TRUE]
    /\ produced = [q \in Queries |-> <<>>]
    /\ resultKinds = [q \in Queries |-> <<>>]
    /\ sentMessages = [c \in Connections |-> <<>>]

\* this.sendMessage(connection.ws, event) on an open socket
SendChat(c, event) ==
    sentMessages' = [sentMessages EXCEPT ![c] = Append(@, event)]

\* connection.state.messages.push(message): into the array the field refers
\* to now
PushMessage(c, message) ==
    arrays' = [arrays EXCEPT ![messages[c]] = Append(@, message)]

\* handleLoadDocs up to its first await: connection.state.messages = []
ClearMessages(c) ==
    /\ ~loading[c]
    /\ arraysMade < MaxArrays
    /\ arraysMade' = arraysMade + 1
    /\ messages' = [messages EXCEPT ![c] = arraysMade + 1]
    /\ loading' = [loading EXCEPT ![c] = TRUE]
    /\ UNCHANGED <<arrays, conversationHistory, connLoaded, answerPc, chatConn,
                   chatHistory, pushedTo, renderedHistory, fullResponse,
                   isFirstChunk, produced, resultKinds, sentMessages>>

\* the load has failed (the catch block), or the graph is created with
\* conversationHistory: connection.state.messages and knowledgeLoaded is set
LoadEnds(c) ==
    /\ loading[c]
    /\ loading' = [loading EXCEPT ![c] = FALSE]
    /\ \/ UNCHANGED <<conversationHistory, connLoaded>>
       \/ /\ conversationHistory' = messages[c]
          /\ connLoaded' = [connLoaded EXCEPT ![c] = TRUE]
    /\ UNCHANGED <<messages, arrays, arraysMade, answerPc, chatConn,
                   chatHistory, pushedTo, renderedHistory, fullResponse,
                   isFirstChunk, produced, resultKinds, sentMessages>>

\* handleChat up to await this.graph.processQuery: the request is rejected,
\* or the user message is pushed and the query is given to the graph the
\* handler holds
Ask(q, c) ==
    /\ answerPc[q] = "idle"
    /\ q > 1 => answerPc[q - 1] # "idle"
    /\ chatConn' = [chatConn EXCEPT ![q] = c]
    /\ IF conversationHistory = 0 \/ ~connLoaded[c]
       THEN /\ SendChat(c, ErrorEvent)
            /\ answerPc' = [answerPc EXCEPT ![q] = "rejected"]
            /\ UNCHANGED <<arrays, chatHistory, pushedTo>>
       ELSE /\ PushMessage(c, Message("user", <<"q">>, q))
            /\ pushedTo' = [pushedTo EXCEPT ![q] = messages[c]]
            /\ chatHistory' = [chatHistory EXCEPT ![q] = conversationHistory]
            /\ answerPc' = [answerPc EXCEPT ![q] = "query"]
            /\ UNCHANGED sentMessages
    /\ UNCHANGED <<messages, arraysMade, conversationHistory, connLoaded,
                   loading, renderedHistory, fullResponse, isFirstChunk,
                   produced, resultKinds>>

\* array.slice(0, -1)
DropLast(arr) == IF arr = <<>> THEN <<>> ELSE SubSeq(arr, 1, Len(arr) - 1)

\* array.slice(-n)
LastN(arr, n) ==
    IF Len(arr) <= n THEN arr ELSE SubSeq(arr, Len(arr) - n + 1, Len(arr))

\* conversationHistory.slice(0, -1).slice(-MAX_CONVERSATION_HISTORY)
RecentHistory(arr) == LastN(DropLast(arr), MaxConversationHistory)

\* the catch block of handleChat
ChatFails(q) ==
    /\ SendChat(chatConn[q], ErrorEvent)
    /\ answerPc' = [answerPc EXCEPT ![q] = "failed"]

\* processQuery has settled: it threw, or the graph has run up to the prompt
\* node, which renders the history from the array the graph captured
JinjaPromptRender(q) ==
    /\ answerPc[q] = "query"
    /\ \/ /\ ChatFails(q)
          /\ UNCHANGED renderedHistory
       \/ /\ renderedHistory' = [renderedHistory EXCEPT ![q] =
                <<RecentHistory(arrays[chatHistory[q]])>>]
          /\ answerPc' = [answerPc EXCEPT ![q] = "results"]
          /\ UNCHANGED sentMessages
    /\ UNCHANGED <<messages, arrays, arraysMade, conversationHistory,
                   connLoaded, loading, chatConn, chatHistory, pushedTo,
                   fullResponse, isFirstChunk, produced, resultKinds>>

AlwaysChunk(first) == "message_chunk"

\* isFirstChunk ? 'message_start' : 'message_chunk'
FragmentType(first) == IF first THEN "message_start" ELSE "message_chunk"

\* the next result of the output stream is a stream (ContentStream and
\* TextStream are handled alike), whose first next() is awaited
StreamResult(q) ==
    /\ answerPc[q] = "results"
    /\ Len(resultKinds[q]) < MaxResults
    /\ resultKinds' = [resultKinds EXCEPT ![q] = Append(@, "TextStream")]
    /\ answerPc' = [answerPc EXCEPT ![q] = "stream"]
    /\ UNCHANGED <<messages, arrays, arraysMade, conversationHistory,
                   connLoaded, loading, chatConn, chatHistory, pushedTo,
                   renderedHistory, fullResponse, isFirstChunk, produced,
                   sentMessages>>

\* next() of the stream has settled: with a fragment, which is forwarded
\* unless it is empty; with done; or by throwing
StreamNext(q, fragments) ==
    /\ answerPc[q] = "stream"
    /\ \/ \E fragment \in fragments :
            /\ Len(produced[q]) < MaxFragments
            /\ produced' = [produced EXCEPT ![q] = Append(@, fragment)]
            /\ IF fragment # <<>>
               THEN /\ fullResponse' = [fullResponse EXCEPT ![q] = @ \o fragment]
                    /\ SendChat(chatConn[q],
                            ChatEvent(FragmentType(isFirstChunk[q]), fragment, q))
                    /\ isFirstChunk' = [isFirstChunk EXCEPT ![q] = FALSE]
               ELSE UNCHANGED <<fullResponse, sentMessages, isFirstChunk>>
            /\ UNCHANGED answerPc
       \/ /\ answerPc' = [answerPc EXCEPT ![q] = "results"]
          /\ UNCHANGED <<produced, fullResponse, sentMessages, isFirstChunk>>
       \/ /\ ChatFails(q)
          /\ UNCHANGED <<produced, fullResponse, isFirstChunk>>
    /\ UNCHANGED <<messages, arrays, arraysMade, conversationHistory,
                   connLoaded, loading, chatConn, chatHistory, pushedTo,
                   renderedHistory, resultKinds>>

\* the next result is a Content or a string: it is sent whole as a message;
\* for an empty string the fallback text is sent and not kept
WholeResult(q) ==
    /\ answerPc[q] = "results"
    /\ Len(resultKinds[q]) < MaxResults
    /\ \E kind \in {"Content", "string"}, content \in Fragments :
        /\ resultKinds' = [resultKinds EXCEPT ![q] = Append(@, kind)]
        /\ IF content # <<>>
           THEN /\ fullResponse' = [fullResponse EXCEPT ![q] = @ \o content]
                /\ SendChat(chatConn[q], ChatEvent("message", content, q))
           ELSE /\ UNCHANGED fullResponse
                /\ IF kind = "string"
                   THEN SendChat(chatConn[q],
                                 ChatEvent("message", NoInformation, q))
                   ELSE UNCHANGED sentMessages
    /\ UNCHANGED <<messages, arrays, arraysMade, conversationHistory,
                   connLoaded, loading, answerPc, chatConn, chatHistory,
                   pushedTo, renderedHistory, isFirstChunk, produced>>

\* if (fullResponse)
HasResponse(response) == response # <<>>

\* the output stream has ended, or thrown: after the loop message_end is
\* sent and the assistant message pushed if any text was produced
OutputEnds(q) ==
    /\ answerPc[q] = "results"
    /\ \/ /\ ChatFails(q)
          /\ UNCHANGED arrays
       \/ /\ answerPc' = [answerPc EXCEPT ![q] = "done"]
          /\ IF HasResponse(fullResponse[q])
             THEN /\ SendChat(chatConn[q], ChatEvent("message_end", <<>>, q))
                  /\ PushMessage(chatConn[q],
                                 Message("assistant", fullResponse[q], q))
             ELSE UNCHANGED <<sentMessages, arrays>>
    /\ UNCHANGED <<messages, arraysMade, conversationHistory, connLoaded,
                   loading, chatConn, chatHistory, pushedTo, renderedHistory,
                   fullResponse, isFirstChunk, produced, resultKinds>>

\* no conversation
ConvOff ==
    /\ messages = [c \in Connections |-> c]
    /\ arrays = [a \in ArrayIds |-> <<>>]
    /\ arraysMade = NumConnections
    /\ conversationHistory = 0
    /\ connLoaded = [c \in Connections |-> FALSE]
    /\ loading = [c \in Connections |-> FALSE]
    /\ answerPc = [q \in Queries |-> "off"]
    /\ chatConn = [q \in Queries |-> 0]
    /\ chatHistory = [q \in Queries |-> 0]
    /\ pushedTo = [q \in Queries |-> 0]
    /\ renderedHistory = [q \in Queries |-> <<>>]
    /\ fullResponse = [q \in Queries |-> <<>>]
    /\ isFirstChunk = [q \in Queries |-> TRUE]
    /\ produced = [q \in Queries |-> <<>>]
    /\ resultKinds = [q \in Queries |-> <<>>]
    /\ sentMessages = [c \in Connections |-> <<>>]

----------------------------------------------------------------------------
(* The text extraction of the HTTP crawler over the subtree of the content   *)
(* area, and the title of a page in both crawlers.  The elements are         *)
(* numbered in document order, the order in which find(...).each visits      *)
(* them; parent 0 is the content area itself.  A text is a sequence of       *)
(* words, none of which has white space at its ends; text() of an element is *)
(* its own words followed by the text of its children.                       *)

\* the elements of one content area
MaxElements == 3

\* a generic container, an element with a class of the code class patterns
\* that is not in the selector of the parents test, a pre element
ElementKinds == {"div", "div.copy", "pre"}

\* the words an element holds itself: none, a short word, a word longer
\* than 5 characters, and two texts of the UI patterns
OwnTexts == {<<>>, <<"ab">>, <<"words!">>, <<"Skip to">>, <<"Log In">>}

WordLength(w) == IF w = "ab" THEN 2 ELSE IF w = "Skip to" THEN 7 ELSE 6

\* the ancestors-or-self of element i
RECURSIVE AncestorsOrSelf(_, _)
AncestorsOrSelf(els, i) ==
    IF i = 0 THEN {} ELSE {i} \cup AncestorsOrSelf(els, els[i].parent)

\* $el.parents()
Parents(els, i) == AncestorsOrSelf(els, i) \ {i}

\* the numbering is a document order: the parent of an element is the
\* content area or on the path from the element before it to the root
IsDocumentOrder(els) ==
    \A i \in 1..Len(els) :
        els[i].parent \in {0} \cup AncestorsOrSelf(els, i - 1)

ContentAreas ==
    {els \in SeqsUpTo([parent : 0..(MaxElements - 1), kind : ElementKinds,
                       own : OwnTexts], MaxElements) : IsDocumentOrder(els)}

\* $el.text(): the text nodes of the element and of its descendants, in
\* document order
RECURSIVE TextFrom(_, _, _)
TextFrom(els, i, j) ==
    IF j > Len(els) THEN <<>>
    ELSE (IF i \in AncestorsOrSelf(els, j) THEN els[j].own ELSE <<>>)
            \o TextFrom(els, i, j + 1)

ElementText(els, i) == TextFrom(els, i, i)

\* text.length
RECURSIVE TextLength(_)
TextLength(t) ==
    IF t = <<>> THEN 0 ELSE WordLength(Head(t)) + TextLength(Tail(t))

\* isCodeBlock: by tag name, by class, or by being inside pre, code or an
\* element of the listed classes
isCodeBlock(els, i) ==
    \/ els[i].kind \in {"pre", "div.copy"}
    \/ \E a \in Parents(els, i) : els[a].kind = "pre"

\* isObviousUIText: /^Skip to/i matches a beginning, /^Log In$/i the whole
isObviousUIText(t) == t # <<>> /\ (Head(t) = "Skip to" \/ t = <<"Log In">>)

\* text.length > 5 && !this.isCodeBlock($el) && !this.isObviousUIText(text)
Contributes(els, i) ==
    /\ TextLength(ElementText(els, i)) > 5
    /\ ~isCodeBlock(els, i)
    /\ ~isObviousUIText(ElementText(els, i))

\* the content area is chosen and find(...) has matched its elements
ExtractInit ==
    /\ elements \in ContentAreas
    /\ eachIndex = 1
    /\ textElements = <<>>
    /\ processedElements = {}
    /\ extractPc = "each"

\* one call of the callback of each(...)
EachElement ==
    /\ extractPc = "each"
    /\ eachIndex <= Len(elements)
    /\ eachIndex' = eachIndex + 1
    /\ IF \/ eachIndex \in processedElements
          \/ Parents(elements, eachIndex) \cap processedElements # {}
          \/ ~Contributes(elements, eachIndex)
       THEN UNCHANGED <<textElements, processedElements>>
       ELSE /\ textElements' = Append(textElements,
                                      ElementText(elements, eachIndex))
            /\ processedElements' = processedElements \cup {eachIndex}
    /\ UNCHANGED <<elements, extractPc>>

\* every element is visited: the texts are joined and returned
ExtractReturns ==
    /\ extractPc = "each"
    /\ eachIndex > Len(elements)
    /\ extractPc' = "returned"
    /\ UNCHANGED <<elements, eachIndex, textElements, processedElements>>

\* no extraction
ExtractOff ==
    /\ elements = <<>>
    /\ eachIndex = 0
    /\ textElements = <<>>
    /\ processedElements = {}
    /\ extractPc = "off"

\* the longest heading or title text
MaxTitleLen == 2

\* the text of the first h1 and of the title element; the empty text also
\* stands for a page without the element
TitleTexts == SeqsUpTo({"a", " "}, MaxTitleLen)

Untitled == <<"U">>

\* ($('h1').first().text() || $('title').text() || 'Untitled').trim()
HttpTitle(h1, t) ==
    Trim(IF h1 # <<>> THEN h1 ELSE IF t # <<>> THEN t ELSE Untitled)

\* document.querySelector('h1')?.textContent?.trim() ||
\* document.querySelector('title')?.textContent?.trim() || 'Untitled'
BrowserTitle(h1, t) ==
    IF Trim(h1) # <<>> THEN Trim(h1)
    ELSE IF Trim(t) # <<>> THEN Trim(t)
    ELSE Untitled

TitleInit ==
    /\ h1Text \in TitleTexts
    /\ titleText \in TitleTexts
    /\ httpTitle = <<>>
    /\ browserTitle = <<>>

\* fetchPageWithLinks extracts the title
ExtractTitle ==
    /\ httpTitle = <<>>
    /\ httpTitle' = <<HttpTitle(h1Text, titleText)>>
    /\ UNCHANGED <<h1Text, titleText, browserTitle>>

\* extractContentFromPage extracts the title
EvaluateTitle ==
    /\ browserTitle = <<>>
    /\ browserTitle' = <<BrowserTitle(h1Text, titleText)>>
    /\ UNCHANGED <<h1Text, titleText, httpTitle>>

\* no page
TitleOff ==
    /\ h1Text = <<>>
    /\ titleText = <<>>
    /\ httpTitle = <<"off">>
    /\ browserTitle = <<"off">>

----------------------------------------------------------------------------
----------------------------------------------------------------------------
(* The client hook useWebSocket.  The effect sets a timer that calls         *)
(* connect; its cleanup clears the timers and closes the socket.  A socket   *)
(* is closed by the peer or the network, or after close() was called; its    *)
(* close event is handled later, as a task of its own.  The refs outlive the *)
(* cleanup, so a second run of the effect finds what the first one left.     *)

\* the sockets created in one run
MaxSockets == 3
\* the runs of the effect (a second one as under StrictMode)
MaxMounts == 2
\* the delay of the reconnect timer, in milliseconds
ReconnectDelay == 3000

SocketIds == 1..MaxSockets

ClientInit ==
    /\ mounted = FALSE
    /\ effectRuns = 0
    /\ connectTimeout = FALSE
    /\ wsRef = 0
    /\ readyState = <<>>
    /\ closeEvent = <<>>
    /\ reconnectTimeoutRef = 0
    /\ timers = <<>>

\* ws.close(): a socket that is connecting or open starts closing
CloseSocket(states, s) ==
    IF states[s] \in {"CONNECTING", "OPEN"}
    THEN [states EXCEPT ![s] = "CLOSING"]
    ELSE states

\* if (reconnectTimeoutRef.current) clearTimeout(reconnectTimeoutRef.current)
ClearReconnect(ts, ref) ==
    IF ref # 0 THEN [ts EXCEPT ![ref].pending = FALSE] ELSE ts

\* the effect runs: setTimeout(connect, 100)
Mount ==
    /\ ~mounted
    /\ effectRuns < MaxMounts
    /\ mounted' = TRUE
    /\ effectRuns' = effectRuns + 1
    /\ connectTimeout' = TRUE
    /\ UNCHANGED <<wsRef, readyState, closeEvent, reconnectTimeoutRef, timers>>

\* the cleanup of the effect
Unmount ==
    /\ mounted
    /\ mounted' = FALSE
    /\ connectTimeout' = FALSE
    /\ timers' = ClearReconnect(timers, reconnectTimeoutRef)
    /\ IF wsRef # 0
       THEN /\ readyState' = CloseSocket(readyState, wsRef)
            /\ wsRef' = 0
       ELSE UNCHANGED <<readyState, wsRef>>
    /\ UNCHANGED <<effectRuns, closeEvent, reconnectTimeoutRef>>

\* connect(): the socket wsRef holds is closed if it is connecting or open,
\* and a new socket becomes the current one
Connect ==
    /\ Len(readyState) < MaxSockets
    /\ readyState' =
        Append(IF wsRef # 0 THEN CloseSocket(readyState, wsRef) ELSE readyState,
               "CONNECTING")
    /\ closeEvent' = Append(closeEvent, "none")
    /\ wsRef' = Len(readyState) + 1

\* the timer of the effect fires
ConnectTimeoutFires ==
    /\ connectTimeout
    /\ connectTimeout' = FALSE
    /\ Connect
    /\ UNCHANGED <<mounted, effectRuns, reconnectTimeoutRef, timers>>

\* a reconnect timer fires
ReconnectFires(t) ==
    /\ timers[t].pending
    /\ timers' = [timers EXCEPT ![t].pending = FALSE]
    /\ Connect
    /\ UNCHANGED <<mounted, effectRuns, connectTimeout, reconnectTimeoutRef>>

\* ws.onopen
OnOpen(s) ==
    /\ readyState[s] = "CONNECTING"
    /\ readyState' = [readyState EXCEPT ![s] = "OPEN"]
    /\ timers' = ClearReconnect(timers, reconnectTimeoutRef)
    /\ UNCHANGED <<mounted, effectRuns, connectTimeout, wsRef, closeEvent,
                   reconnectTimeoutRef>>

\* the connection of socket s has failed, was lost or was closed: its close
\* event is queued
SocketCloses(s) ==
    /\ readyState[s] \in {"CONNECTING", "OPEN", "CLOSING"}
    /\ readyState' = [readyState EXCEPT ![s] = "CLOSED"]
    /\ closeEvent' = [closeEvent EXCEPT ![s] = "queued"]
    /\ UNCHANGED <<mounted, effectRuns, connectTimeout, wsRef,
                   reconnectTimeoutRef, timers>>

ReconnectsForAnySocket(ref, s) == TRUE

\* wsRef.current === ws
IsCurrent(ref, s) == ref = s

\* ws.onclose
OnClose(s) ==
    /\ closeEvent[s] = "queued"
    /\ closeEvent' = [closeEvent EXCEPT ![s] = "handled"]
    /\ IF IsCurrent(wsRef, s)
       THEN /\ wsRef' = 0
            /\ timers' = Append(ClearReconnect(timers, reconnectTimeoutRef),
                                [delay |-> ReconnectDelay, pending |-> TRUE])
            /\ reconnectTimeoutRef' = Len(timers) + 1
       ELSE UNCHANGED <<wsRef, timers, reconnectTimeoutRef>>
    /\ UNCHANGED <<mounted, effectRuns, connectTimeout, readyState>>

\* no client
ClientOff ==
    /\ mounted = FALSE
    /\ effectRuns = MaxMounts
    /\ connectTimeout = FALSE
    /\ wsRef = 0
    /\ readyState = <<>>
    /\ closeEvent = <<>>
    /\ reconnectTimeoutRef = 0
    /\ timers = <<>>

----------------------------------------------------------------------------
RestOff == ConvOff /\ ExtractOff /\ TitleOff /\ ClientOff

----------------------------------------------------------------------------
vars == <<chunkVars, httpVars, browserVars, handlerVars, storeVars,
          retrievalVars, embedVars, restVars>>

\* the chunker alone
ChunkIdle ==
    /\ text = <<>>
    /\ maxChars = 1
    /\ chunks = <<>>
    /\ chunkPc = "done"

\* a crawler that is not deployed
HttpOff ==
    /\ visitedUrls = {}
    /\ crawlPc = [c \in CrawlIds |-> "off"]
    /\ pages = [c \in CrawlIds |-> <<>>]
    /\ toCrawl = [c \in CrawlIds |-> <<>>]
    /\ urlsToProcess = [c \in CrawlIds |-> <<>>]
    /\ results = [c \in CrawlIds |-> <<>>]
    /\ fetched = [c \in CrawlIds |-> [u \in Urls |-> 0]]
    /\ failedUrls = [c \in CrawlIds |-> {}]
    /\ progress = [c \in CrawlIds |-> <<>>]
    /\ enqueued = [c \in CrawlIds |-> {}]
    /\ pageContent = [c \in CrawlIds |-> [u \in Urls |-> 0]]

BrowserOff ==
    /\ bVisitedUrls = {}
    /\ bPc = "off"
    /\ urlsToScrape = <<>>
    /\ batchStart = 0
    /\ bResults = <<>>
    /\ batchOutcome = <<>>
    /\ navigated = [u \in BrowserUrls |-> 0]
    /\ bProgress = <<>>
    /\ bPageContent = [u \in BrowserUrls |-> 0]

\* no knowledge manager in use
StoreOff ==
    /\ embeddedRecords = 0
    /\ heap = [a \in 0..NumLoads |-> <<>>]
    /\ populatePc = [l \in Loads |-> "off"]
    /\ loadPages = [l \in Loads |-> <<>>]
    /\ validTexts = [l \in Loads |-> <<>>]
    /\ batchResult = [l \in Loads |-> <<>>]
    /\ thisGraph = 0
    /\ graphRecords = [l \in Loads |-> -1]
    /\ lastRead = [graph |-> 0, records |-> <<>>]

\* no retrieval
RetrievalOff ==
    /\ nodeRecords = <<>>
    /\ queryEmbedding = <<>>
    /\ ranked = <<>>
    /\ relevantRecords = <<>>
    /\ retrievalPc = "off"

\* no embedder service in use
EmbedOff ==
    /\ initialized = FALSE
    /\ embedPc = "off"
    /\ embedTexts = <<>>
    /\ batchIndex = 0
    /\ allEmbeddings = <<>>
    /\ outstanding = 0
    /\ sentBatches = <<>>
    /\ replies = <<>>
    /\ embedReturn = <<>>
    /\ embedCalls = 0

ChunkNext ==
    /\ Chunk
    /\ UNCHANGED <<httpVars, browserVars, handlerVars, storeVars, retrievalVars, embedVars, restVars>>

InitChunk ==
    ChunkInit /\ HttpOff /\ BrowserOff /\ HandlerInit /\ StoreOff /\ RetrievalOff
    /\ EmbedOff /\ RestOff

SpecChunk == InitChunk /\ [][ChunkNext]_vars

\* one scrapeDocumentation call on a scraper of its own
HttpNext ==
    /\ \/ ScrapeDocumentation(1)
       \/ FetchSettles(1, AnySite)
       \/ ProcessBatch(1)
    /\ UNCHANGED <<chunkVars, browserVars, handlerVars, storeVars, retrievalVars, embedVars, restVars>>

InitHttp ==
    ChunkIdle /\ HttpInit /\ BrowserOff /\ HandlerInit /\ StoreOff /\ RetrievalOff
    /\ EmbedOff /\ RestOff

SpecHttp == InitHttp /\ [][HttpNext]_vars

\* the same, every started request settling and every continuation running
SpecHttpFair == SpecHttp /\ WF_vars(HttpNext)

\* two scrapeDocumentation calls on the scraper the message handler shares
\* between its connections
SharedNext ==
    /\ \E c \in CrawlIds :
        \/ ScrapeDocumentation(c)
        \/ FetchSettles(c, LinkedSite)
        \/ ProcessBatch(c)
    /\ UNCHANGED <<chunkVars, browserVars, handlerVars, storeVars, retrievalVars, embedVars, restVars>>

SpecShared == InitHttp /\ [][SharedNext]_vars

\* one scrapeDocumentation call on the browser-based scraper
BrowserNext ==
    /\ \/ BrowserScrapeDocumentation
       \/ InitialLinks
       \/ InitialThrows
       \/ PageSettles
       \/ BatchSettled
       \/ DelayOver
    /\ UNCHANGED <<chunkVars, httpVars, handlerVars, storeVars, retrievalVars, embedVars, restVars>>

InitBrowser ==
    ChunkIdle /\ HttpOff /\ BrowserInit /\ HandlerInit /\ StoreOff /\ RetrievalOff
    /\ EmbedOff /\ RestOff

SpecBrowser == InitBrowser /\ [][BrowserNext]_vars

\* one crawl by either crawler implementation
InitCrawlers == InitHttp \/ InitBrowser

CrawlersNext == HttpNext \/ BrowserNext

SpecCrawlers == InitCrawlers /\ [][CrawlersNext]_vars

\* the message handler serving its connections' load and chat requests
HandlerNext ==
    /\ \E c \in Connections :
        \/ HandleLoadDocs(c)
        \/ ScrapingProgress(c)
        \/ ScrapeSettles(c)
        \/ PopulateSettles(c)
        \/ DestroySettles(c)
        \/ CreateSettles(c)
        \/ HandleChat(c)
        \/ QuerySettles(c)
        \/ StreamEnds(c)
    /\ UNCHANGED <<chunkVars, httpVars, browserVars, storeVars, retrievalVars, embedVars, restVars>>

InitHandler ==
    ChunkIdle /\ HttpOff /\ BrowserOff /\ HandlerInit /\ StoreOff /\ RetrievalOff
    /\ EmbedOff /\ RestOff

SpecHandler == InitHandler /\ [][HandlerNext]_vars

\* every await of the handler settles
SpecHandlerFair == SpecHandler /\ WF_vars(HandlerNext)

\* one populate call on a knowledge manager no other load uses
PopulateNext ==
    /\ \/ loadDocumentationWithEmbeddings(1, PageLists)
       \/ EmbedderInitialized(1)
       \/ EmbedBatchSettles(1, ServiceVectors)
    /\ UNCHANGED <<chunkVars, httpVars, browserVars, handlerVars, retrievalVars, embedVars, restVars>>

InitPopulate ==
    ChunkIdle /\ HttpOff /\ BrowserOff /\ HandlerInit /\ StoreInit /\ RetrievalOff
    /\ EmbedOff /\ RestOff

SpecPopulate == InitPopulate /\ [][PopulateNext]_vars

\* the load requests of the handler's connections on its one knowledge
\* manager, and the queries on its graph
StoreNext ==
    /\ \/ \E l \in Loads :
            \/ loadDocumentationWithEmbeddings(l, SitePages(l))
            \/ EmbedderInitialized(l)
            \/ EmbedBatchSettles(l, {<<1, 0>>})
            \/ InworldGraphCreate(l)
            \/ CaptureRecords(l)
       \/ ReadRecords
    /\ UNCHANGED <<chunkVars, httpVars, browserVars, handlerVars, retrievalVars, embedVars, restVars>>

SpecStore == InitPopulate /\ [][StoreNext]_vars

\* one query at the retrieval node
RetrievalNext ==
    /\ Process
    /\ UNCHANGED <<chunkVars, httpVars, browserVars, handlerVars, storeVars,
                   embedVars, restVars>>

InitRetrieval ==
    ChunkIdle /\ HttpOff /\ BrowserOff /\ HandlerInit /\ StoreOff /\ RetrievalInit
    /\ EmbedOff /\ RestOff

SpecRetrieval == InitRetrieval /\ [][RetrievalNext]_vars

\* invocations of embedBatch on one service, one after the other
EmbedNext ==
    /\ \/ \E input \in EmbedInputs : embedBatch(input)
       \/ \E ok \in BOOLEAN : InitializeSettles(ok)
       \/ ServiceFails
       \/ ServiceAnswers
    /\ UNCHANGED <<chunkVars, httpVars, browserVars, handlerVars, storeVars,
                   retrievalVars, restVars>>

InitEmbed ==
    ChunkIdle /\ HttpOff /\ BrowserOff /\ HandlerInit /\ StoreOff /\ RetrievalOff
    /\ EmbedInit /\ RestOff

SpecEmbed == InitEmbed /\ [][EmbedNext]_vars

\* the chat requests of one connection whose load has succeeded: the first
\* is answered by any results, the later ones by streams of one text, and
\* they are handled concurrently
StreamInit ==
    /\ messages = [c \in Connections |-> c]
    /\ arrays = [a \in ArrayIds |-> <<>>]
    /\ arraysMade = NumConnections
    /\ conversationHistory = 1
    /\ connLoaded = [c \in Connections |-> c = 1]
    /\ loading = [c \in Connections |-> FALSE]
    /\ answerPc = [q \in Queries |-> "idle"]
    /\ chatConn = [q \in Queries |-> 0]
    /\ chatHistory = [q \in Queries |-> 0]
    /\ pushedTo = [q \in Queries |-> 0]
    /\ renderedHistory = [q \in Queries |-> <<>>]
    /\ fullResponse = [q \in Queries |-> <<>>]
    /\ isFirstChunk = [q \in Queries |-> TRUE]
    /\ produced = [q \in Queries |-> <<>>]
    /\ resultKinds = [q \in Queries |-> <<>>]
    /\ sentMessages = [c \in Connections |-> <<>>]

StreamingNext ==
    /\ \/ \E q \in Queries :
            \/ Ask(q, 1)
            \/ JinjaPromptRender(q)
            \/ StreamResult(q)
            \/ OutputEnds(q)
       \/ StreamNext(1, Fragments)
       \/ WholeResult(1)
       \/ \E q \in Queries \ {1} : StreamNext(q, {<<"a">>})
    /\ UNCHANGED <<chunkVars, httpVars, browserVars, handlerVars, storeVars,
                   retrievalVars, embedVars, extractVars, titleVars, clientVars>>

InitStream ==
    ChunkIdle /\ HttpOff /\ BrowserOff /\ HandlerInit /\ StoreOff /\ RetrievalOff
    /\ EmbedOff /\ StreamInit /\ ExtractOff /\ TitleOff /\ ClientOff

SpecStream == InitStream /\ [][StreamingNext]_vars

\* the load and chat requests of the connections on the handler's one graph,
\* every answer a stream of fragments of one text
ConvNext ==
    /\ \/ \E c \in Connections : ClearMessages(c) \/ LoadEnds(c)
       \/ \E q \in Queries :
            \/ \E c \in Connections : Ask(q, c)
            \/ JinjaPromptRender(q)
            \/ StreamResult(q)
            \/ StreamNext(q, {<<"a">>})
            \/ OutputEnds(q)
    /\ UNCHANGED <<chunkVars, httpVars, browserVars, handlerVars, storeVars,
                   retrievalVars, embedVars, extractVars, titleVars, clientVars>>

InitConv ==
    ChunkIdle /\ HttpOff /\ BrowserOff /\ HandlerInit /\ StoreOff /\ RetrievalOff
    /\ EmbedOff /\ ConvInit /\ ExtractOff /\ TitleOff /\ ClientOff

SpecConv == InitConv /\ [][ConvNext]_vars

\* one call of extractDocumentationText
ExtractNext ==
    /\ \/ EachElement
       \/ ExtractReturns
    /\ UNCHANGED <<chunkVars, httpVars, browserVars, handlerVars, storeVars,
                   retrievalVars, embedVars, convVars, titleVars, clientVars>>

InitExtract ==
    ChunkIdle /\ HttpOff /\ BrowserOff /\ HandlerInit /\ StoreOff /\ RetrievalOff
    /\ EmbedOff /\ ConvOff /\ ExtractInit /\ TitleOff /\ ClientOff

SpecExtract == InitExtract /\ [][ExtractNext]_vars

\* the title of one page as each crawler extracts it
TitleNext ==
    /\ \/ ExtractTitle
       \/ EvaluateTitle
    /\ UNCHANGED <<chunkVars, httpVars, browserVars, handlerVars, storeVars,
                   retrievalVars, embedVars, convVars, extractVars, clientVars>>

InitTitle ==
    ChunkIdle /\ HttpOff /\ BrowserOff /\ HandlerInit /\ StoreOff /\ RetrievalOff
    /\ EmbedOff /\ ConvOff /\ ExtractOff /\ TitleInit /\ ClientOff

SpecTitle == InitTitle /\ [][TitleNext]_vars

\* the hook of one component, its sockets and its timers
ClientNext ==
    /\ \/ Mount
       \/ Unmount
       \/ ConnectTimeoutFires
       \/ \E t \in 1..Len(timers) : ReconnectFires(t)
       \/ \E s \in 1..Len(readyState) :
            \/ OnOpen(s)
            \/ SocketCloses(s)
            \/ OnClose(s)
    /\ UNCHANGED <<chunkVars, httpVars, browserVars, handlerVars, storeVars,
                   retrievalVars, embedVars, convVars, extractVars, titleVars>>

InitClient ==
    ChunkIdle /\ HttpOff /\ BrowserOff /\ HandlerInit /\ StoreOff /\ RetrievalOff
    /\ EmbedOff /\ ConvOff /\ ExtractOff /\ TitleOff /\ ClientInit

SpecClient == InitClient /\ [][ClientNext]_vars


----------------------------------------------------------------------------
AllSettled(c) ==
    \A i \in 1..Len(urlsToProcess[c]) : results[c][i] # Pending

FetchedUrls(c) == {u \in Urls : fetched[c][u] > 0}

\* C1: a chat request is answered only when the session's pipeline is Ready:
\* one that arrives while the pipeline is Idle or a load (the first, or a
\* reload) is in progress is rejected and starts no graph query.
C1_ChatOnlyWhenReady ==
    \A c \in Connections :
        lastChat[c].result = "started" => lastChat[c].phase = "Ready"

\* C2: after a failed load request the pipeline is Idle with no knowledge
\* base: every chat request is rejected until a later load succeeds, also
\* when an earlier load had succeeded.
C2_FailedLoadLeavesIdle ==
    \A c \in Connections :
        lastChat[c].after = "failed" /\ lastChat[c].phase = "Idle" =>
            lastChat[c].result # "started"

\* C3: in one crawlLinks invocation with no other crawl on the scraper,
\* fetchPageWithLinks is called at most once for each URL, whatever the links
\* of the site and whichever fetches fail.
C3_FetchedAtMostOnce ==
    \A u \in Urls : fetched[1][u] <= 1

\* a finished crawl that fetched three URLs, one of them in vain, on a site
\* whose pages link back to the seed
C3_Witness ==
    /\ crawlPc[1] = "returned"
    /\ Cardinality(FetchedUrls(1)) >= 3
    /\ failedUrls[1] # {}
    /\ Len(pages[1]) >= 2

\* C4: when two scrapeDocumentation calls overlap on the shared scraper, the
\* start of one does not change what the other considers visited (every URL
\* a running crawl has dispatched stays visited) and neither crawl fetches a
\* URL twice.
C4_VisitedScopedToCrawl ==
    \A c \in CrawlIds :
        /\ \A u \in Urls : fetched[c][u] <= 1
        /\ crawlPc[c] = "await" => FetchedUrls(c) \subseteq visitedUrls

\* a step that takes a batch from the frontier and starts its fetches
Dispatches(c) ==
    /\ crawlPc'[c] = "await"
    /\ crawlPc[c] = "idle" \/ AllSettled(c)

\* C7: crawlLinks terminates when every fetch settles; it has stopped only
\* with an empty frontier or maxPages results, and each loop iteration
\* dispatches at least one URL that was not visited before and at most
\* min(CONCURRENT_LIMIT, maxPages - count) URLs.
C7_CrawlTerminates ==
    /\ <>(crawlPc[1] = "returned")
    /\ [](crawlPc[1] = "returned" =>
            toCrawl[1] = <<>> \/ Len(pages[1]) >= MaxPages)
    /\ [](crawlPc[1] = "await" =>
            Len(toCrawl[1]) + Len(urlsToProcess[1]) > 0 /\ Len(pages[1]) < MaxPages)
    /\ [][Dispatches(1) =>
            /\ Len(urlsToProcess'[1]) >= 1
            /\ Len(urlsToProcess'[1]) <=
                    Min(ConcurrentLimit, MaxPages - Len(pages'[1]))
            /\ \E u \in Range(urlsToProcess'[1]) : u \notin visitedUrls]_vars

\* a crawl stopped by maxPages with the frontier not empty, after more
\* fetches than pages
C7_Witness ==
    /\ crawlPc[1] = "returned"
    /\ toCrawl[1] # <<>>
    /\ Len(pages[1]) = MaxPages
    /\ Cardinality(FetchedUrls(1)) > MaxPages

IndicesOf(res, keep(_)) == {i \in DOMAIN res : keep(res[i])}

\* the elements of seq at the indices in idx, in order
RECURSIVE Pick(_, _, _)
Pick(seq, idx, i) ==
    IF i > Len(seq) THEN <<>>
    ELSE (IF i \in idx THEN <<seq[i]>> ELSE <<>>) \o Pick(seq, idx, i + 1)

NotFailed(r) == r.kind # "fail"

\* C8: a fetch that fails contributes no page and no links and does not
\* abort the crawl: its URL is in no result list, and a settled batch is
\* processed exactly as the same batch without its failed fetches would be.
C8_FailedFetchIgnored ==
    /\ Range(pages[1]) \cap failedUrls[1] = {}
    /\ crawlPc[1] = "await" /\ AllSettled(1) =>
         LET kept == IndicesOf(results[1], NotFailed)
             st == [pages |-> pages[1], toCrawl |-> toCrawl[1],
                    progress |-> progress[1]]
         IN  ProcessResults(urlsToProcess[1], results[1], st, visitedUrls, 1)
               = ProcessResults(Pick(urlsToProcess[1], kept, 1),
                                Pick(results[1], kept, 1), st, visitedUrls, 1)
    /\ crawlPc[1] = "returned" /\ FetchedUrls(1) \subseteq failedUrls[1] =>
         pages[1] = <<>>

\* a settled batch whose first fetch failed and whose second returned a page
\* with a link that will be enqueued
C8_Witness ==
    /\ crawlPc[1] = "await"
    /\ AllSettled(1)
    /\ Len(urlsToProcess[1]) = 2
    /\ results[1][1].kind = "fail"
    /\ results[1][2].kind = "ok"
    /\ \E l \in results[1][2].links : Enqueues(l, visitedUrls, toCrawl[1])

\* C9: every URL crawlLinks fetches has the seed's host name.
C9_FetchesStayOnSeedHost ==
    \A u \in FetchedUrls(1) : Hostname(u) = Hostname(SeedUrl)

\* C5: in the browser-based scraper one scrapeDocumentation call navigates
\* to each URL at most once, the navigation that collects the seed's links
\* included.
C5_NavigatedAtMostOnce ==
    \A u \in BrowserUrls : navigated[u] <= 1

\* C6: in both crawlers the number of accumulated pages is at every point at
\* most maxPages, so the returned list never has more than maxPages pages.
C6_AtMostMaxPages ==
    /\ Len(pages[1]) <= MaxPages
    /\ Len(bResults) <= MaxPages

\* the browser-based scraper returned after its second batch with maxPages
\* pages, every collected URL having yielded a page
C6_Witness ==
    /\ bPc = "returned"
    /\ Len(bResults) = MaxPages
    /\ Len(urlsToScrape) = MaxPages
    /\ batchStart > 0

----------------------------------------------------------------------------
HasSpace(s) == \E i \in 1..Len(s) : s[i] = " "

\* C10: every chunk returned by chunkText(text, maxChars), maxChars >= 1, has
\* length <= maxChars, unless it is a single word (no space in it) that is
\* itself longer than maxChars.
C10_ChunkWithinLimit ==
    chunkPc = "done" =>
        \A i \in 1..Len(chunks) :
            Len(chunks[i]) <= maxChars \/ ~HasSpace(chunks[i])

\* a text with a word longer than the limit next to words that are packed
\* together: the long word is a chunk of its own
C10_Witness ==
    /\ chunkPc = "done"
    /\ Len(chunks) >= 2
    /\ \E i \in 1..Len(chunks) : Len(chunks[i]) > maxChars
    /\ \E i \in 1..Len(chunks) : HasSpace(chunks[i])

\* the characters of a list of strings, in order
RECURSIVE Flatten(_)
Flatten(ss) == IF ss = <<>> THEN <<>> ELSE Head(ss) \o Flatten(Tail(ss))

NonSpace(s) == SelectSeq(s, LAMBDA c : ~IsSpace(c))

\* what follows the last terminated sentence of s
RECURSIVE TrailingText(_)
TrailingText(s) ==
    IF s = <<>> THEN <<>>
    ELSE IF IsTerminator(Head(s)) THEN TrailingText(Tail(s))
    ELSE LET q == RunLen(s, FALSE)
             r == q + RunLen(Drop(s, q), TRUE)
         IN  IF q = Len(s) THEN s ELSE TrailingText(Drop(s, r))

\* the terminated sentences of s followed by its non-terminated trailing
\* text as one final sentence
SourceSentences(s) ==
    IF MatchSentences(s) = <<>> THEN <<s>>
    ELSE MatchSentences(s) \o
            (IF NonSpace(TrailingText(s)) = <<>> THEN <<>> ELSE <<TrailingText(s)>>)

\* C11: chunkText loses no text and keeps source order: the chunks, read in
\* order, hold the characters (white space aside) of every sentence of the
\* input once and in input order, the non-terminated trailing text counting
\* as one final sentence.
C11_ChunksKeepAllSentences ==
    chunkPc = "done" =>
        NonSpace(Flatten(chunks)) = NonSpace(Flatten(SourceSentences(text)))

\* C12: chunking is idempotent on its own output: chunkText(c, m) returns
\* exactly [c] for every chunk c of chunkText(t, m).
C12_RechunkingIsIdentity ==
    chunkPc = "done" =>
        \A i \in 1..Len(chunks) : chunkText(chunks[i], maxChars) = <<chunks[i]>>

----------------------------------------------------------------------------
\* the positions of the valid chunks of load l whose embedding is missing or
\* empty in the result of embedBatch
FailedPositions(l) ==
    {i \in 1..Len(validTexts[l]) :
        i > Len(batchResult[l]) \/ batchResult[l][i] = <<>>}

TextsOf(records) == [i \in 1..Len(records) |-> records[i].text]

EmbeddingsOf(records) == [i \in 1..Len(records) |-> records[i].embedding]

\* C13: with n valid chunks of which f have a missing or empty embedding,
\* populate throws for the failure rate iff f/n > 0.5 (exactly half failing
\* succeeds), and on success the store holds exactly the n - f chunks whose
\* embedding is not empty.
C13_FailsAboveHalf ==
    LET n == Len(validTexts[1])
        f == Cardinality(FailedPositions(1))
        store == heap[embeddedRecords]
    IN  /\ populatePc[1] = "threw: failure rate" => 2 * f > n
        /\ populatePc[1] = "returned" =>
            /\ 2 * f <= n
            /\ Len(store) = n - f
            /\ TextsOf(store) =
                    Pick(validTexts[1], (1..n) \ FailedPositions(1), 1)
            /\ \A i \in 1..Len(store) : store[i].embedding # <<>>

\* four valid chunks, two of them without an embedding: populate returns
C13_Witness ==
    /\ populatePc[1] = "returned"
    /\ Len(validTexts[1]) = 4
    /\ Cardinality(FailedPositions(1)) = 2
    /\ Len(heap[embeddedRecords]) = 2

\* C14: when populate fails (no valid chunk, an embedding call error, a
\* failure rate above 50%), the store holds no record afterwards and
\* hasEmbeddings() is false.
C14_FailedPopulateKeepsNothing ==
    populatePc[1] \in PopulateThrew =>
        heap[embeddedRecords] = <<>> /\ ~hasEmbeddings

\* the complete result of the populate call of load l
CompleteResult(l) == BuildRecords(validTexts[l], batchResult[l], 1).records

PopulateSucceeded(l) ==
    populatePc[l] \in {"returned", "create", "created", "threw: create"}

\* C15: the record sequence a retrieval reads is exactly the complete result
\* of one successful populate call: never a store that is still being filled,
\* never records of two loads, whatever the interleaving of the load requests
\* and the queries.
C15_ReadersSeeOneCompleteLoad ==
    lastRead.graph # 0 =>
        \E l \in Loads : PopulateSucceeded(l) /\ lastRead.records = CompleteResult(l)

\* C16: after a successful populate the records are in chunk discovery order
\* (pages in the order given, the chunks of a page in chunker order) without
\* the chunks that are too short and those whose embedding is missing or
\* empty, and each record pairs its chunk with the vector returned at the
\* chunk's position among the valid chunks.
C16_RecordsInDiscoveryOrder ==
    populatePc[1] = "returned" =>
        LET discovered == Flatten([i \in 1..Len(loadPages[1]) |->
                                chunkText(loadPages[1][i], MaxCharsPerChunk)])
            longEnough == {i \in 1..Len(discovered) :
                                Len(discovered[i]) >= MinValidLen}
            valid == Pick(discovered, longEnough, 1)
            e == batchResult[1]
            kept == {k \in 1..Len(valid) : k <= Len(e) /\ e[k] # <<>>}
            store == heap[embeddedRecords]
        IN  /\ TextsOf(store) = Pick(valid, kept, 1)
            /\ EmbeddingsOf(store) = Pick(e, kept, 1)

\* two pages, a chunk too short between valid ones, the first valid chunk
\* without an embedding and different vectors for the others
C16_Witness ==
    /\ populatePc[1] = "returned"
    /\ Len(loadPages[1]) = 2
    /\ Len(CollectTexts(loadPages[1])) > Len(validTexts[1])
    /\ 1 \in FailedPositions(1)
    /\ Len(heap[embeddedRecords]) = 3
    /\ heap[embeddedRecords][1].embedding # heap[embeddedRecords][2].embedding

----------------------------------------------------------------------------
\* the similarity of the query to the record with text t
SimilarityOf(t) == SimilarityItem(queryEmbedding, nodeRecords, t).similarity

\* the records whose similarity is a number not under 0.5
AboveThreshold ==
    {t \in 1..Len(nodeRecords) :
        SimilarityOf(t).sq > 0 /\
        4 * SimilarityOf(t).num * SimilarityOf(t).num >= SimilarityOf(t).sq}

\* t comes before u in the ranking: higher similarity first, insertion order
\* among equal similarities
RanksBefore(t, u) ==
    \/ Less(SimilarityOf(u), SimilarityOf(t))
    \/ ~Less(SimilarityOf(t), SimilarityOf(u)) /\ t < u

\* C17: the retrieval node returns at most RETRIEVAL_TOP_K texts, each of a
\* record whose similarity to the query is >= RETRIEVAL_THRESHOLD.
C17_AtMostTopKAboveThreshold ==
    retrievalPc = "returned" =>
        /\ Len(relevantRecords) <= RetrievalTopK
        /\ \A k \in 1..Len(relevantRecords) : relevantRecords[k] \in AboveThreshold

\* more records above the threshold than top-K, next to a record below it, a
\* zero vector and a vector of another dimension: top-K texts are returned
C17_Witness ==
    /\ retrievalPc = "returned"
    /\ Len(relevantRecords) = RetrievalTopK
    /\ Cardinality(AboveThreshold) > RetrievalTopK
    /\ \E t \in 1..Len(nodeRecords) :
        t \notin AboveThreshold /\ SimilarityOf(t).num > 0

\* C18: the returned texts are ordered by similarity, highest first, and
\* records of equal similarity appear in their insertion order.
C18_RankedStably ==
    retrievalPc = "returned" =>
        \A i, j \in 1..Len(relevantRecords) :
            i < j => RanksBefore(relevantRecords[i], relevantRecords[j])

\* C19: retrieval returns exactly the best candidates: with m records of
\* similarity >= threshold, the first min(m, top-K) of them in ranked order.
C19_ExactlyTheBest ==
    retrievalPc = "returned" =>
        LET best == CHOOSE r \in Perms(AboveThreshold) :
                        \A i, j \in 1..Len(r) : i < j => RanksBefore(r[i], r[j])
        IN  relevantRecords =
                Take(best, Min(Cardinality(AboveThreshold), RetrievalTopK))

\* C20: retrieval over an empty store raises no error and returns an empty
\* list of texts.
C20_EmptyStoreReturnsNothing ==
    nodeRecords = <<>> /\ retrievalPc # "input" =>
        retrievalPc = "returned" /\ relevantRecords = <<>>

\* the same three claims for stores and queries without a zero vector
NoZeroVector ==
    /\ Dot(queryEmbedding, queryEmbedding) > 0
    /\ \A t \in 1..Len(nodeRecords) :
        Dot(nodeRecords[t].embedding, nodeRecords[t].embedding) > 0

RankedWithoutZeroVector ==
    NoZeroVector => C18_RankedStably /\ C19_ExactlyTheBest

----------------------------------------------------------------------------
\* the records whose embedding has another dimension than the query
Mismatched ==
    {t \in 1..Len(nodeRecords) :
        Len(nodeRecords[t].embedding) # Len(queryEmbedding)}

\* what the node can return for the store without the mismatched records
OutcomesWithoutMismatched ==
    LET others == Pick(nodeRecords, (1..Len(nodeRecords)) \ Mismatched, 1)
    IN  {TopRecords(sorted) :
            sorted \in SortOutcomes(Similarities(queryEmbedding, others))}

\* cosineSimilarity throws iff the lengths differ; the node does not throw
\* for it, gives the record similarity 0 and never returns it
MismatchScoresZero ==
    /\ \A t \in 1..Len(nodeRecords) :
        cosineSimilarity(queryEmbedding, nodeRecords[t].embedding).error
            <=> t \in Mismatched
    /\ retrievalPc = "threw" => nodeRecords = <<>>
    /\ retrievalPc = "returned" =>
        /\ \A i \in 1..Len(ranked) :
            ranked[i].index \in Mismatched =>
                ranked[i].similarity = ZeroSimilarity
        /\ \A k \in 1..Len(relevantRecords) :
            relevantRecords[k] \notin Mismatched

\* C21: cosineSimilarity fails with a dimension-mismatch error iff the two
\* vectors differ in length; in retrieval the failure does not abort the
\* ranking: the record gets similarity 0, is never returned, and the other
\* records are ranked as if it were absent.
C21_MismatchDegradesToZero ==
    /\ MismatchScoresZero
    /\ retrievalPc = "returned" /\ Len(nodeRecords) > Cardinality(Mismatched) =>
        relevantRecords \in OutcomesWithoutMismatched

----------------------------------------------------------------------------
\* C22: embedBatch splits its input into contiguous batches of at most
\* BATCH_SIZE texts in input order and sends them one at a time, so at most
\* one service call is outstanding; the first failing batch fails the whole
\* invocation: no later batch is sent and no partial result is returned.
C22_BatchesInOrderOneAtATime ==
    /\ outstanding <= 1
    /\ \A b \in 1..Len(sentBatches) :
        /\ Len(sentBatches[b]) \in 1..BatchSize
        /\ b < Len(sentBatches) => Len(sentBatches[b]) = BatchSize
    /\ Flatten(sentBatches) = Take(embedTexts, Len(Flatten(sentBatches)))
    /\ Len(replies) = Len(sentBatches) - outstanding
    /\ \A b \in 1..Len(replies) :
        replies[b] = "fail" =>
            /\ b = Len(replies)
            /\ outstanding = 0
            /\ embedPc = "threw"
            /\ embedReturn = <<>>
    /\ embedPc = "threw" => embedReturn = <<>>
    /\ embedPc = "returned" =>
        /\ Flatten(sentBatches) = embedTexts
        /\ \A b \in 1..Len(replies) : replies[b] = "ok"
        /\ embedReturn = <<allEmbeddings>>

\* an invocation failed at its second batch, after the first was answered
C22_Witness ==
    /\ embedPc = "threw"
    /\ replies = <<"ok", "fail">>
    /\ Len(embedTexts) > Len(Flatten(sentBatches))
    /\ allEmbeddings # <<>>

----------------------------------------------------------------------------
\* C23: a chat request on a session that never completed a successful load
\* gets the not-ready error, starts no graph query and leaves the
\* conversation history unchanged.
C23_NoChatBeforeFirstLoad ==
    \A c \in Connections :
        okLoad[c] = 0 =>
            /\ lastChat[c].result \in {"none", "rejected"}
            /\ chatPc[c] = "idle"
            /\ messageCount[c] = 0

\* a session without a successful load was refused while the handler held
\* the graph of another session
C23_Witness ==
    \E c \in Connections :
        /\ okLoad[c] = 0
        /\ lastChat[c].result = "rejected"
        /\ graph # NoGraph

----------------------------------------------------------------------------
\* the counts 1, 2, 3, ... without repeats, none above the total
CountsUp(calls) ==
    /\ \A i \in 1..Len(calls) : calls[i] = i
    /\ Len(calls) <= MaxPages

HttpProgressCountsUp ==
    \A c \in CrawlIds :
        /\ CountsUp(progress[c])
        /\ crawlPc[c] = "returned" => Len(progress[c]) = Len(pages[c])

BrowserProgressCountsUp ==
    /\ CountsUp(bProgress)
    /\ bPc = "returned" => Len(bProgress) = Len(bResults)

\* C24: in both crawlers onProgress is invoked once per accepted page with
\* current equal to the number of pages accepted so far, that page included:
\* the counts are 1, 2, 3, ... without repeats, never exceed total, and the
\* last count is the number of pages returned.
C24_ProgressCountsAcceptedPages ==
    HttpProgressCountsUp /\ BrowserProgressCountsUp

----------------------------------------------------------------------------
\* C25: every returned Page has content of at least 50 characters, in either
\* crawler.
C25_PagesHaveContent ==
    /\ \A c \in CrawlIds : \A i \in 1..Len(pages[c]) :
        pageContent[c][pages[c][i]] >= 50
    /\ \A i \in 1..Len(bResults) : bPageContent[bResults[i]] >= 50

\* a crawl returned a page after a fetch or a navigation whose content was
\* too short
C25_Witness ==
    \/ /\ crawlPc[1] = "returned"
       /\ Len(pages[1]) > 0
       /\ \E u \in FetchedUrls(1) \ failedUrls[1] : u \notin Range(pages[1])
    \/ /\ bPc = "returned"
       /\ Len(bResults) > 0
       /\ \E u \in Range(urlsToScrape) :
            navigated[u] > 0 /\ u \notin Range(bResults)

----------------------------------------------------------------------------
\* C26: a chat request of a connection is answered from the records of that
\* connection's last successful load and from that connection's conversation
\* history, whatever other connections do.
C26_AnsweredFromOwnSession ==
    \A c \in Connections :
        chatPc[c] # "idle" =>
            /\ chatUse[c].graph = chatUse[c].ownLoad
            /\ chatUse[c].history = chatUse[c].ownHistory

\* the same for the records alone
AnsweredFromOwnRecords ==
    \A c \in Connections :
        chatPc[c] # "idle" => chatUse[c].graph = chatUse[c].ownLoad

----------------------------------------------------------------------------
TypesOf(log) == [i \in 1..Len(log) |-> log[i].type]

\* C27: handling a load first empties the message history and sends
\* clear_messages, then loading_docs, before any scraping_progress and
\* before the terminal docs_loaded or error.
C27_ClearThenLoadingFirst ==
    /\ [](\A c \in Connections :
            events[c] # <<>> =>
                /\ Len(events[c]) >= 2
                /\ events[c][1].type = "clear_messages"
                /\ events[c][2].type = "loading_docs"
                /\ \A i \in 3..Len(events[c]) :
                    events[c][i].type \in
                        {"scraping_progress", "docs_loaded", "error"})
    /\ [][\A c \in Connections :
            loadPc[c] = "idle" /\ loadPc'[c] # "idle" =>
                /\ messageCount'[c] = 0
                /\ Len(events'[c]) = 2]_vars

\* a load that reported progress and ended with docs_loaded
C27_Witness ==
    \E c \in Connections :
        TypesOf(events[c]) = <<"clear_messages", "loading_docs",
                               "scraping_progress", "docs_loaded">>

----------------------------------------------------------------------------
IsTerminal(e) == e.type \in {"docs_loaded", "error"}

Terminals(log) == SelectSeq(log, IsTerminal)

ProgressEvents(log) == SelectSeq(log, LAMBDA e : e.type = "scraping_progress")

\* a running load has sent no terminal event, a finished one exactly one,
\* as its last event; docs_loaded is that of a load that succeeded
OneTerminalEvent ==
    \A c \in Connections :
        /\ loadPc[c] # "idle" => Terminals(events[c]) = <<>>
        /\ loadPc[c] = "idle" /\ events[c] # <<>> =>
            /\ Len(Terminals(events[c])) = 1
            /\ IsTerminal(events[c][Len(events[c])])
            /\ events[c][Len(events[c])].type = "docs_loaded" <=>
                    (lastLoad[c] = "ok" /\ okLoad[c] = loadId[c])

\* the step that sends docs_loaded is the one in which InworldGraph.create
\* of that load has returned, with the page count of the load and the number
\* of records the store holds
DocsLoadedStep ==
    \A c \in Connections :
        events'[c] # events[c] /\ events'[c] # <<>>
            /\ events'[c][Len(events'[c])].type = "docs_loaded" =>
                /\ loadPc[c] = "creating"
                /\ graph' = [load |-> loadId[c], destroyed |-> FALSE]
                /\ events'[c][Len(events'[c])].pageCount =
                        Len(ProgressEvents(events[c]))
                /\ events'[c][Len(events'[c])].pageCount > 0
                /\ events'[c][Len(events'[c])].recordCount = storeCount'

\* C28: every load ends with exactly one terminal event, docs_loaded or
\* error and never both, provided everything settles; docs_loaded is sent
\* only after populate and create succeeded and reports the number of
\* crawled pages as pageCount and the number of records in the store as
\* recordCount.
C28_OneTerminalEvent ==
    /\ []OneTerminalEvent
    /\ [][DocsLoadedStep]_vars
    /\ \A c \in Connections : (loadPc[c] # "idle") ~> (loadPc[c] = "idle")

\* one load ended with docs_loaded and another with error
C28_Witness ==
    \E c, d \in Connections :
        /\ loadPc[c] = "idle" /\ loadPc[d] = "idle"
        /\ TypesOf(Terminals(events[c])) = <<"docs_loaded">>
        /\ TypesOf(Terminals(events[d])) = <<"error">>
        /\ events[c][Len(events[c])].recordCount > 0

----------------------------------------------------------------------------
\* the query or the stream of connection c runs on the graph this.graph
\* refers to, and destroy() of that graph has been called
RunsOnDestroyedGraph(c) ==
    /\ chatPc[c] # "idle"
    /\ chatUse[c].graph = graph.load
    /\ graph.destroyed

\* C29: handleChat never calls processQuery on a graph whose destroy has
\* begun, and no graph is destroyed while an answer is still streamed from
\* it.
C29_NoQueryOnDestroyedGraph ==
    \A c \in Connections : ~RunsOnDestroyedGraph(c)

----------------------------------------------------------------------------
\* the URLs that were taken out of toCrawl
Removed(c) == enqueued[c] \ Range(toCrawl[c])

\* C30: in crawlLinks every URL removed from the frontier is marked visited
\* and dispatched, and when a crawl returns fewer than maxPages pages every
\* URL ever enqueued has been fetched.
C30_RemovedUrlsAreFetched ==
    \A c \in CrawlIds :
        /\ Removed(c) \subseteq visitedUrls
        /\ Removed(c) \subseteq FetchedUrls(c)
        /\ crawlPc[c] = "returned" /\ Len(pages[c]) < MaxPages =>
            enqueued[c] \subseteq FetchedUrls(c)

----------------------------------------------------------------------------
NoDuplicates(seq) ==
    \A i, j \in 1..Len(seq) : seq[i] = seq[j] => i = j

CleanFrontier(queue, visited) ==
    NoDuplicates(queue) /\ Range(queue) \cap visited = {}

\* the frontiers the processing of the settled batch of crawl c can leave
FrontiersAfterBatch(c) ==
    {st.toCrawl : st \in ProcessResults(urlsToProcess[c], results[c],
                        [pages |-> pages[c], toCrawl |-> toCrawl[c],
                         progress |-> progress[c]], visitedUrls, 1)}

\* C31: at every point of a single crawlLinks invocation the frontier holds
\* no URL twice and no visited URL, and a discovered link is appended to the
\* frontier's tail only if it is neither visited nor already queued.
C31_FrontierCleanAndAppendOnly ==
    /\ CleanFrontier(toCrawl[1], visitedUrls)
    /\ crawlPc[1] = "await" /\ AllSettled(1) =>
        \A queue \in FrontiersAfterBatch(1) :
            /\ CleanFrontier(queue, visitedUrls)
            /\ Len(queue) >= Len(toCrawl[1])
            /\ Take(queue, Len(toCrawl[1])) = toCrawl[1]

\* a settled batch of two pages that both found the same new link: the
\* first appends it, for the second it is already queued
C31_Witness ==
    /\ crawlPc[1] = "await"
    /\ AllSettled(1)
    /\ Len(results[1]) = 2
    /\ \E l \in results[1][1].links \cap results[1][2].links :
        Enqueues(l, visitedUrls, toCrawl[1])

----------------------------------------------------------------------------
\* the URLs of the settled batch of crawl c that got a page, in the order of
\* the batch
AcceptedOfBatch(c) ==
    Pick(urlsToProcess[c],
         {i \in 1..Len(urlsToProcess[c]) : results[c][i].kind = "ok"}, 1)

\* C32: crawlLinks appends pages in dispatch order: in the order their URLs
\* were taken from the frontier, within a batch in the batch's input order
\* whichever fetch completes first, so an accepted seed page is the first
\* element of the result.
C32_PagesInDispatchOrder ==
    /\ crawlPc[1] = "await" /\ AllSettled(1) =>
        \A st \in ProcessResults(urlsToProcess[1], results[1],
                        [pages |-> pages[1], toCrawl |-> toCrawl[1],
                         progress |-> progress[1]], visitedUrls, 1) :
            st.pages = pages[1] \o AcceptedOfBatch(1)
    /\ crawlPc[1] = "await" =>
        \A i \in 1..Len(pages[1]) : pages[1][i] \notin Range(urlsToProcess[1])
    /\ SeedUrl \in Range(pages[1]) => pages[1][1] = SeedUrl

\* a crawl returned the seed page followed by two pages fetched after it
C32_Witness ==
    /\ crawlPc[1] = "returned"
    /\ Len(pages[1]) = 3
    /\ pages[1][1] = SeedUrl
    /\ fetched[1][pages[1][2]] = 1
    /\ fetched[1][pages[1][3]] = 1

----------------------------------------------------------------------------
\* the results of the settled batch of crawl c with result i taken as that
\* of an accepted page with the same links
AsAccepted(c, i) ==
    [results[c] EXCEPT ![i] =
        [kind |-> "ok", links |-> @.links, content |-> MinContentLength]]

BatchOutcomes(c, res) ==
    ProcessResults(urlsToProcess[c], res,
                   [pages |-> pages[c], toCrawl |-> toCrawl[c],
                    progress |-> progress[c]], visitedUrls, 1)

\* the link sets a fetch of url can return with a result of the given kind
LinkSets(url, kind) ==
    {r.links : r \in {x \in FetchResults(url, visitedUrls, AnySite) :
                        x.kind = kind}}

\* C33: a successfully fetched page whose content is too short (under 50
\* characters) yields no Page and no progress event, but its links are
\* collected and enqueued like those of an accepted page.
C33_ShortPageKeepsLinks ==
    /\ \A url \in DocUrls : LinkSets(url, "short") = LinkSets(url, "ok")
    /\ crawlPc[1] = "await" /\ AllSettled(1) =>
        \A i \in 1..Len(results[1]) :
            results[1][i].kind = "short" =>
                /\ results[1][i].content < 50
                /\ {st.toCrawl : st \in BatchOutcomes(1, results[1])}
                    = {st.toCrawl : st \in BatchOutcomes(1, AsAccepted(1, i))}
                /\ \A st \in BatchOutcomes(1, results[1]) :
                    /\ urlsToProcess[1][i] \notin Range(st.pages)
                    /\ Len(st.progress) = Len(st.pages)
                    /\ Len(st.pages) = Len(pages[1]) + Len(AcceptedOfBatch(1))

\* the seed page was too short and the links found on it are fetched
C33_Witness ==
    /\ crawlPc[1] = "await"
    /\ pageContent[1][SeedUrl] = 0
    /\ fetched[1][SeedUrl] = 1
    /\ SeedUrl \notin failedUrls[1]
    /\ SeedUrl \notin Range(urlsToProcess[1])
    /\ Len(urlsToProcess[1]) = 2
    /\ pages[1] = <<>>
    /\ progress[1] = <<>>

\* C34: a populate call that returns successfully leaves a store that is not
\* empty and holds at least half of the valid chunks, so that hasEmbeddings()
\* is true, which is what InworldGraph.create requires, when no other load
\* uses the knowledge manager.
C34_SuccessfulPopulateFillsStore ==
    populatePc[1] = "returned" =>
        /\ Len(validTexts[1]) > 0
        /\ Len(heap[embeddedRecords]) > 0
        /\ 2 * Len(heap[embeddedRecords]) >= Len(validTexts[1])
        /\ hasEmbeddings

\* four valid chunks of which exactly half got an embedding
C34_Witness ==
    /\ populatePc[1] = "returned"
    /\ Len(validTexts[1]) = 4
    /\ Len(heap[embeddedRecords]) = 2
    /\ Len(batchResult[1]) < 4
    /\ \E i \in 1..Len(batchResult[1]) : batchResult[1][i] = <<>>

\* the events sent under the message id of chat request q, in order
EventsOf(q) ==
    LET Mine(e) == e.id = q
    IN  IF chatConn[q] = 0 THEN <<>>
        ELSE SelectSeq(sentMessages[chatConn[q]], Mine)

\* the fragments that are not empty, in order
NonEmptyOf(fragments) ==
    LET HasText(f) == f # <<>>
    IN  SelectSeq(fragments, HasText)

\* every result of the query so far was a stream
StreamedOnly(q) ==
    \A i \in 1..Len(resultKinds[q]) : resultKinds[q][i] = "TextStream"

\* the assistant messages of chat request q in message array a
AssistantMessages(q, a) ==
    {i \in 1..Len(arrays[a]) :
        arrays[a][i].role = "assistant" /\ arrays[a][i].id = q}

\* C35: for a query answered as a stream the fragments that are not empty
\* are forwarded in the order produced under the query's one message id, the
\* first as message_start and every later one as message_chunk; message_end
\* is sent once, after the last fragment and only if some text was produced;
\* the assistant message appended to the history is the concatenation of
\* the forwarded fragments in order.
C35_FragmentsForwardedInOrder ==
    \A q \in Queries :
        answerPc[q] \in {"results", "stream", "done", "failed"}
        /\ StreamedOnly(q) =>
            LET mine == EventsOf(q)
                forwarded == NonEmptyOf(produced[q])
                n == Len(forwarded)
                kept == UNION {{<<a, i>> : i \in AssistantMessages(q, a)} :
                                a \in ArrayIds}
            IN  /\ Len(mine) \in {n, n + 1}
                /\ \A i \in 1..n :
                    /\ mine[i].content = forwarded[i]
                    /\ mine[i].type =
                        IF i = 1 THEN "message_start" ELSE "message_chunk"
                /\ Len(mine) = n + 1 =>
                    /\ mine[n + 1].type = "message_end"
                    /\ n > 0
                    /\ answerPc[q] = "done"
                /\ answerPc[q] = "done" /\ n > 0 =>
                    /\ Len(mine) = n + 1
                    /\ \E i \in 1..Len(arrays[messages[chatConn[q]]]) :
                        /\ kept = {<<messages[chatConn[q]], i>>}
                        /\ arrays[messages[chatConn[q]]][i].content
                            = Flatten(forwarded)
                /\ answerPc[q] # "done" \/ n = 0 => kept = {}

\* a query answered by two streams that yield "b" and then "a", while the
\* events of another query go out between its message_start and its
\* message_end
C35_Witness ==
    /\ answerPc[1] = "done"
    /\ resultKinds[1] = <<"TextStream", "TextStream">>
    /\ produced[1] = << <<"b">>, <<"a">> >>
    /\ \E i, j, k \in 1..Len(sentMessages[1]) :
        /\ i < j /\ j < k
        /\ sentMessages[1][i] = ChatEvent("message_start", <<"b">>, 1)
        /\ sentMessages[1][j].id = 2
        /\ sentMessages[1][k] = ChatEvent("message_end", <<>>, 1)

\* the messages that precede the user message of chat request q in the
\* conversation it was pushed to
Preceding(q) ==
    LET arr == arrays[pushedTo[q]]
        at == CHOOSE i \in 1..Len(arr) : arr[i] = Message("user", <<"q">>, q)
    IN  SubSeq(arr, 1, at - 1)

\* C36: the conversation history given to generation for a query excludes
\* the message of the query and consists of at most MAX_CONVERSATION_HISTORY
\* messages: the most recent messages of the session's current conversation
\* that precede the query, in order.
C36_HistoryIsRecentAndOwn ==
    \A q \in Queries :
        renderedHistory[q] # <<>> =>
            /\ Len(renderedHistory[q][1]) <= MaxConversationHistory
            /\ \A i \in 1..Len(renderedHistory[q][1]) :
                    renderedHistory[q][1][i].id # q
            /\ renderedHistory[q][1]
                = LastN(Preceding(q), MaxConversationHistory)

\* the elements the callback skipped by its test: visited, not collected,
\* no ancestor collected
Skipped ==
    {i \in 1..Len(elements) :
        /\ i < eachIndex
        /\ AncestorsOrSelf(elements, i) \cap processedElements = {}}

\* among the elements whose text is collected none is an ancestor of another
NoNestedContribution ==
    \A i, j \in processedElements : i \notin Parents(elements, j)

\* element d is long enough, is no UI text and is itself no pre element and
\* has no code class
PassesByItself(d) ==
    /\ TextLength(ElementText(elements, d)) > 5
    /\ ~isObviousUIText(ElementText(elements, d))
    /\ elements[d].kind = "div"

\* the text of element d went into textElements, by d or by an ancestor
Contributed(d) == AncestorsOrSelf(elements, d) \cap processedElements # {}

\* C37: in extractDocumentationText no text is contributed twice through
\* nesting: among the collected elements none is an ancestor of another, and
\* an element that was skipped as too short, as a code block or as UI text
\* does not keep its descendants from contributing.
C37_NoNestedTextAndSkipsDoNotBlock ==
    extractPc = "returned" =>
        /\ NoNestedContribution
        /\ \A e \in Skipped :
            \A d \in 1..Len(elements) :
                e \in Parents(elements, d) /\ PassesByItself(d) =>
                    Contributed(d)

\* C37, second half without the descendants of pre elements
SkipsDoNotBlockOutsidePre ==
    extractPc = "returned" =>
        \A e \in Skipped :
            \A d \in 1..Len(elements) :
                /\ e \in Parents(elements, d)
                /\ PassesByItself(d)
                /\ \A a \in Parents(elements, d) : elements[a].kind # "pre"
                => Contributed(d)

\* the title the claim describes for a heading text and a title text
DescribedTitle(h1, t) ==
    IF Trim(h1) # <<>> THEN Trim(h1)
    ELSE IF Trim(t) # <<>> THEN Trim(t)
    ELSE Untitled

\* C38: the extracted title is never empty: it is the trimmed text of the
\* first h1 when that is not empty, otherwise the trimmed text of the title
\* element when that is not empty, otherwise "Untitled", in both crawlers,
\* also for a heading or title that holds white space only.
C38_TitleNeverEmpty ==
    /\ httpTitle # <<>> =>
        /\ httpTitle[1] # <<>>
        /\ httpTitle[1] = DescribedTitle(h1Text, titleText)
    /\ browserTitle # <<>> =>
        /\ browserTitle[1] # <<>>
        /\ browserTitle[1] = DescribedTitle(h1Text, titleText)

\* C38 for the browser-based crawler alone
BrowserTitleNeverEmpty ==
    browserTitle # <<>> =>
        /\ browserTitle[1] # <<>>
        /\ browserTitle[1] = DescribedTitle(h1Text, titleText)

PendingTimers == {t \in 1..Len(timers) : timers[t].pending}

\* the close event of socket s is handled in this step
ClosesNow(s) == closeEvent[s] = "queued" /\ closeEvent'[s] = "handled"

\* what a step of the hook may do to the timers and the sockets
ReconnectStep ==
    /\ \A s \in 1..Len(readyState) :
        ClosesNow(s) =>
            IF wsRef = s
            THEN /\ mounted
                 /\ Len(timers') = Len(timers) + 1
                 /\ {t \in 1..Len(timers') : timers'[t].pending}
                        = {Len(timers')}
                 /\ timers'[Len(timers')].delay = 3000
            ELSE timers' = timers
    /\ Len(timers') # Len(timers) =>
            \E s \in 1..Len(readyState) : ClosesNow(s) /\ wsRef = s
    /\ ~mounted => Len(readyState') = Len(readyState)
    /\ Len(readyState') # Len(readyState) =>
        /\ Len(readyState') = Len(readyState) + 1
        /\ \/ connectTimeout /\ ~connectTimeout'
           \/ \E t \in PendingTimers :
                timers' = [timers EXCEPT ![t].pending = FALSE]

\* C39: while the hook is mounted the close of the current socket schedules
\* exactly one reconnect attempt, 3 seconds later, and at most one reconnect
\* timer is pending at any time; a socket that was superseded or was closed
\* by the unmount never schedules a reconnect; after the unmount no new
\* socket is created.
C39_OneReconnectPerClose ==
    /\ [](Cardinality(PendingTimers) <= 1)
    /\ [][ReconnectStep]_vars

\* the first socket closed while mounted, the reconnect timer fired and made
\* the second socket, which the unmount closed; the close event of the
\* second is handled and no timer is pending
C39_Witness ==
    /\ ~mounted
    /\ Len(readyState) = 2
    /\ closeEvent = <<"handled", "handled">>
    /\ Len(timers) = 1
    /\ PendingTimers = {}
    /\ wsRef = 0

============================================================================
